---- MODULE Spec2Model ----
(***************************************************************************)
(* Contour border synthesis (lib/contour-border): createBorderMask,        *)
(* applyHandDrawnEffect and applyContourBorder, run on a 2D canvas.        *)
(*                                                                         *)
(* A canvas is a function from its pixels <<x, y>> to a pixel              *)
(* [a |-> alpha class, c |-> colour].  The alpha classes are               *)
(*   0 = fully transparent, 1 = partially transparent, 2 = fully opaque;   *)
(* compositing is computed on the classes as the real-valued Porter-Duff   *)
(* formulas act on them (8-bit rounding of a product is not modelled).     *)
(* Rectangles handed to drawImage are in half pixels, because the source   *)
(* places an image of odd width at imageX = width / 2.                     *)
(***************************************************************************)
EXTENDS Integers, Sequences, FiniteSets, TLC

\* ---------------------------------------------------------------- bounds
MaxDim == 4        \* image width and height range over 1..MaxDim
MaxGap == 1        \* gapPx ranges over 0..MaxGap
MaxStroke == 1     \* strokePx ranges over 1..MaxStroke
MaxPrims == 1      \* distinct stipple primitives told apart in one pass

\* ------------------------------------------------------------ arithmetic
Max(a, b) == IF a >= b THEN a ELSE b
Min(a, b) == IF a <= b THEN a ELSE b

\* ---------------------------------------------------------------- pixels
Transparent == [a |-> 0, c |-> "none"]

Pixels(w, h) == (0 .. w - 1) \X (0 .. h - 1)

\* document.createElement('canvas') with width w, height h, then clearRect
BlankCanvas(w, h) == [w |-> w, h |-> h, px |-> [p \in Pixels(w, h) |-> Transparent]]

\* product of two alphas (or of an alpha and a coverage)
MulA(a, b) == IF a = 0 \/ b = 0 THEN 0 ELSE IF a = 2 /\ b = 2 THEN 2 ELSE 1

\* interpolation of a non-empty set of alphas, every weight positive
MixA(S) == IF S = {0} THEN 0 ELSE IF S = {2} THEN 2 ELSE 1

\* colour of an interpolation of pixels
MixC(P) ==
    LET cs == {q.c : q \in {r \in P : r.a > 0}}
    IN  IF cs = {} THEN "none"
        ELSE IF Cardinality(cs) = 1 THEN CHOOSE c \in cs : TRUE
        ELSE "mix"

\* --------------------------------------------------- globalCompositeOperation
\* 'source-over' (the default): s drawn over d
SourceOverPixel(d, s) ==
    IF s.a = 2 THEN s
    ELSE IF s.a = 0 THEN d
    ELSE IF d.a = 0 THEN s
    ELSE [a |-> d.a, c |-> IF s.c = d.c THEN d.c ELSE "mix"]

\* 'destination-out': d kept where s is absent, alpha d * (1 - s)
DestinationOutPixel(d, s) ==
    IF d.a = 0 \/ s.a = 2 THEN Transparent
    ELSE IF s.a = 0 THEN d
    ELSE [a |-> 1, c |-> d.c]

\* 'source-in': s kept where d is present, alpha s * d
SourceInPixel(d, s) ==
    IF d.a = 0 \/ s.a = 0 THEN Transparent
    ELSE [a |-> MulA(s.a, d.a), c |-> s.c]

\* 'destination-in': d kept where s is present, alpha d * s
DestinationInPixel(d, s) ==
    IF d.a = 0 \/ s.a = 0 THEN Transparent
    ELSE [a |-> MulA(d.a, s.a), c |-> d.c]

Composite(op, d, s) ==
    CASE op = "source-over" -> SourceOverPixel(d, s)
      [] op = "destination-out" -> DestinationOutPixel(d, s)
      [] op = "source-in" -> SourceInPixel(d, s)
      [] op = "destination-in" -> DestinationInPixel(d, s)

\* -------------------------------------------------------------- drawImage
(* One axis of drawImage(src, sx, sy, sw, sh, dx, dy, dw, dh).  s0, sw, d0, *)
(* dw are in half pixels, n is the source's size in pixels, x a            *)
(* destination pixel.  The source rectangle is clipped to the source and   *)
(* the destination rectangle in proportion.  Result: the coverage of x by  *)
(* the destination rectangle and the source pixels read for it.  With      *)
(* smoothing the two nearest source pixels are interpolated and a          *)
(* partly covered destination pixel is antialiased; without, the pixel     *)
(* whose centre is mapped is read.                                         *)
\* no source pixel is read for a destination pixel
NoSample == [cov |-> 0, idx |-> {}]

\* source pixel i, kept within the clipped source rectangle
AxisClamp(pmin, pmax, i) == Max(pmin, Min(pmax, i))

\* the one or two source pixels interpolated for a pixel centre
AxisPair(pmin, pmax, i0, exact) ==
    IF exact THEN {AxisClamp(pmin, pmax, i0)}
    ELSE {AxisClamp(pmin, pmax, i0), AxisClamp(pmin, pmax, i0 + 1)}

(* lo, hi: the part of destination pixel x inside the clipped destination *)
(* rectangle cd0 .. cd1, all times sw; num: the source position of the    *)
(* pixel centre, in half pixels, times dw; pmin .. pmax: the source       *)
(* pixels of the clipped source rectangle.                                 *)
AxisCovered(x, sw, dw, cd0, cd1, lo, hi, num, pmin, pmax, smooth) ==
    IF hi <= lo THEN NoSample
    ELSE IF smooth
    THEN [cov |-> IF hi - lo = 2 * sw THEN 2 ELSE 1,
          idx |-> AxisPair(pmin, pmax, (num - dw) \div (2 * dw),
                           (num - dw) % (2 * dw) = 0)]
    ELSE IF cd0 <= (2 * x + 1) * sw /\ (2 * x + 1) * sw < cd1
    THEN [cov |-> 2, idx |-> {AxisClamp(pmin, pmax, num \div (2 * dw))}]
    ELSE NoSample

\* cd0, cd1: the destination edges of the clipped source rectangle, times sw
AxisEdges(x, s0, sw, d0, dw, cs0, cs1, cd0, cd1, smooth) ==
    AxisCovered(x, sw, dw, cd0, cd1,
                Max(2 * x * sw, cd0), Min((2 * x + 2) * sw, cd1),
                s0 * dw + (2 * x + 1 - d0) * sw,
                cs0 \div 2, ((cs1 + 1) \div 2) - 1, smooth)

\* cs0, cs1: the source rectangle clipped to the source
AxisClipped(x, s0, sw, d0, dw, cs0, cs1, smooth) ==
    IF cs1 <= cs0 THEN NoSample
    ELSE AxisEdges(x, s0, sw, d0, dw, cs0, cs1,
                   d0 * sw + (cs0 - s0) * dw, d0 * sw + (cs1 - s0) * dw, smooth)

AxisSampleForward(x, s0, sw, d0, dw, n, smooth) ==
    IF sw <= 0 \/ dw <= 0 THEN NoSample
    ELSE AxisClipped(x, s0, sw, d0, dw, Max(s0, 0), Min(s0 + sw, 2 * n), smooth)

\* AxisSampleForward on the source read backwards
AxisSampleMirrored(x, s0, sw, d0, dw, n, smooth) ==
    LET r == AxisSampleForward(x, 2 * n - s0 - sw, sw, d0, dw, n, smooth)
    IN  [cov |-> r.cov, idx |-> {n - 1 - i : i \in r.idx}]

(* One axis of drawImage for sizes of any sign: nothing is painted when a  *)
(* size is zero; a negative size names the rectangle that ends at the      *)
(* given corner, and the image is mirrored when exactly one of the two     *)
(* sizes is negative.                                                      *)
AxisSample(x, s0, sw, d0, dw, n, smooth) ==
    IF sw = 0 \/ dw = 0 THEN [cov |-> 0, idx |-> {}]
    ELSE IF (sw < 0) = (dw < 0)
    THEN AxisSampleForward(x, Min(s0, s0 + sw), Max(sw, -sw),
                           Min(d0, d0 + dw), Max(dw, -dw), n, smooth)
    ELSE AxisSampleMirrored(x, Min(s0, s0 + sw), Max(sw, -sw),
                            Min(d0, d0 + dw), Max(dw, -dw), n, smooth)

\* the pixel of alpha al interpolated from the source pixels in read
Interpolated(al, read) ==
    IF al = 0 THEN Transparent ELSE [a |-> al, c |-> MixC(read)]

\* the source pixels in read, interpolated and weighted by the coverage cov
Sampled(cov, read) == Interpolated(MulA(cov, MixA({r.a : r \in read})), read)

\* what drawImage draws on a pixel whose axis samples are cx and cy
DrawnPixel(src, cx, cy) ==
    IF cx.cov = 0 \/ cy.cov = 0 THEN Transparent
    ELSE Sampled(MulA(cx.cov, cy.cov), {src.px[q] : q \in cx.idx \X cy.idx})

\* dst with src composited on it; ax and ay are the axis samples per column
\* and per row
Paint(dst, op, src, ax, ay) ==
    [dst EXCEPT !.px = [p \in Pixels(dst.w, dst.h) |->
                           Composite(op, dst.px[p], DrawnPixel(src, ax[p[1]], ay[p[2]]))]]

(* ctx.drawImage(src, S, D) on canvas dst under composite operation op.    *)
(* S and D are <<x, y, width, height>> in half pixels.                     *)
DrawImage(dst, op, src, S, D, smooth) ==
    Paint(dst, op, src,
          [x \in 0 .. dst.w - 1 |-> AxisSample(x, S[1], S[3], D[1], D[3], src.w, smooth)],
          [y \in 0 .. dst.h - 1 |-> AxisSample(y, S[2], S[4], D[2], D[4], src.h, smooth)])

\* the whole of a canvas, as a rectangle in half pixels
Whole(cv) == <<0, 0, 2 * cv.w, 2 * cv.h>>

\* ctx.fillStyle = color; ctx.fillRect(0, 0, w, h) over the whole canvas
FillRect(dst, op, color) ==
    [dst EXCEPT !.px = [p \in Pixels(dst.w, dst.h) |->
                            Composite(op, dst.px[p], [a |-> 2, c |-> color])]]

\* ------------------------------------------------------------------ options
\* DEFAULT_OPTIONS with the strokePx the interface's comment announces
DEFAULT_OPTIONS_Stroke6 ==
    [color |-> "#ffffff", borderScale |-> 106, gapPx |-> 10, strokePx |-> 6,
     lineLengthRange |-> <<20, 40>>, dotSizeRange |-> <<3, 5>>,
     spacing |-> 12, jitterAmount |-> 60]

\* jitterAmount is kept in units of 1/40 pixel (1.5 px = 60) and borderScale
\* in hundredths (1.06 = 106); the other fields are the numbers of the source
DEFAULT_OPTIONS ==
    [color |-> "#ffffff", borderScale |-> 106, gapPx |-> 10, strokePx |-> 5,
     lineLengthRange |-> <<20, 40>>, dotSizeRange |-> <<3, 5>>,
     spacing |-> 12, jitterAmount |-> 60]

\* { ...DEFAULT_OPTIONS, ...options }
MergeOptions(options) ==
    [k \in DOMAIN DEFAULT_OPTIONS \cup DOMAIN options |->
        IF k \in DOMAIN options THEN options[k] ELSE DEFAULT_OPTIONS[k]]

\* ------------------------------------------------------- createBorderMask
NoCanvas == BlankCanvas(0, 0)

\* a getImageData that accepts an empty rectangle
GetImageDataNeverThrows(sw, sh) == FALSE

\* ctx.getImageData(x, y, sw, sh) throws IndexSizeError when sw or sh is 0
GetImageDataThrows(sw, sh) == sw = 0 \/ sh = 0

\* canvasWidth = imageWidth * 2 (and canvasHeight likewise)
CanvasSize(imageSize) == imageSize * 2

\* imageX = (canvasWidth - imageWidth) / 2 (and imageY likewise), in half pixels
CentreOffset(canvasSize, imageSize) == canvasSize - imageSize

\* InnerRect with a minimum gap of one pixel
InnerRectMinGap(imageRect, gapPx) ==
    <<imageRect[1] - 2 * Max(1, gapPx), imageRect[2] - 2 * Max(1, gapPx),
      imageRect[3] + 4 * Max(1, gapPx), imageRect[4] + 4 * Max(1, gapPx)>>

(* The rectangle <<innerX, innerY, innerWidth, innerHeight>> the mask is   *)
(* scaled into, in half pixels, from the image's rectangle.                *)
InnerRect(imageRect, gapPx) ==
    <<imageRect[1] - 2 * gapPx, imageRect[2] - 2 * gapPx,
      imageRect[3] + 4 * gapPx, imageRect[4] + 4 * gapPx>>

\* OuterRect with the sign of strokePx wrong: the outer box inside the inner
OuterRectInward(innerRect, strokePx) ==
    <<innerRect[1] + 2 * strokePx, innerRect[2] + 2 * strokePx,
      innerRect[3] - 4 * strokePx, innerRect[4] - 4 * strokePx>>

(* The rectangle <<outerX, outerY, outerWidth, outerHeight>> the inner     *)
(* silhouette is scaled into, in half pixels.                              *)
OuterRect(innerRect, strokePx) ==
    <<innerRect[1] - 2 * strokePx, innerRect[2] - 2 * strokePx,
      innerRect[3] + 4 * strokePx, innerRect[4] + 4 * strokePx>>

\* RingCanvas with 'destination-in' in place of 'destination-out'
RingCanvasDestinationIn(outerCanvas, innerCanvas, color, smooth) ==
    FillRect(DrawImage(outerCanvas, "destination-in", innerCanvas,
                       Whole(innerCanvas), Whole(innerCanvas), smooth),
             "source-in", color)

(* Steps 4 and 5: destination-out of the inner canvas drawn at 0, 0, then  *)
(* the source-in fillRect of the whole canvas with the colour.             *)
RingCanvas(outerCanvas, innerCanvas, color, smooth) ==
    LET subtracted ==
            DrawImage(outerCanvas, "destination-out", innerCanvas,
                      Whole(innerCanvas), Whole(innerCanvas), smooth)
    IN  FillRect(subtracted, "source-in", color)

(* The onload handler of createBorderMask, one operator per step, each     *)
(* handed the locals computed so far.  The result is the locals the        *)
(* handler leaves behind: outerSilhouette is outerCanvas after the scaled  *)
(* draw, ring is outerCanvas after destination-out and the source-in fill. *)
(* imageRect and innerRect are <<x, y, width, height>> in half pixels.     *)

\* the two debugging getImageData calls, steps 4 and 5, and resolve / reject
RingStep(img, imageRect, opts, smooth, maskCanvas, innerCanvas, outerCanvas) ==
    IF GetImageDataThrows(Min(10, img.w), Min(10, img.h))
       \/ GetImageDataThrows(Min(50, maskCanvas.w), Min(50, maskCanvas.h))
    THEN [ok |-> FALSE, imageX |-> imageRect[1], imageY |-> imageRect[2],
          maskCanvas |-> NoCanvas, innerCanvas |-> NoCanvas,
          outerSilhouette |-> NoCanvas, ring |-> NoCanvas]
    ELSE [ok |-> TRUE, imageX |-> imageRect[1], imageY |-> imageRect[2],
          maskCanvas |-> maskCanvas, innerCanvas |-> innerCanvas,
          outerSilhouette |-> outerCanvas,
          ring |-> RingCanvas(outerCanvas, innerCanvas, opts.color, smooth)]

\* OuterStep with the outer silhouette scaled from the base mask
OuterStepFromMask(img, imageRect, innerRect, opts, smooth, maskCanvas, innerCanvas) ==
    RingStep(img, imageRect, opts, smooth, maskCanvas, innerCanvas,
             DrawImage(BlankCanvas(maskCanvas.w, maskCanvas.h), "source-over",
                       maskCanvas, imageRect, OuterRect(innerRect, opts.strokePx),
                       smooth))

\* step 3: outerCanvas, the inner canvas's innerRect scaled into the outer rect
OuterStep(img, imageRect, innerRect, opts, smooth, maskCanvas, innerCanvas) ==
    RingStep(img, imageRect, opts, smooth, maskCanvas, innerCanvas,
             DrawImage(BlankCanvas(maskCanvas.w, maskCanvas.h), "source-over",
                       innerCanvas, innerRect, OuterRect(innerRect, opts.strokePx),
                       smooth))

\* step 2: innerCanvas, the mask canvas's image rect scaled into innerRect
InnerStep(img, imageRect, innerRect, opts, smooth, maskCanvas) ==
    OuterStep(img, imageRect, innerRect, opts, smooth, maskCanvas,
              DrawImage(BlankCanvas(maskCanvas.w, maskCanvas.h), "source-over",
                        maskCanvas, imageRect, innerRect, smooth))

\* step 1: maskCanvas, canvasWidth x canvasHeight, the image drawn at imageRect
MaskStep(img, imageRect, opts, smooth) ==
    InnerStep(img, imageRect, InnerRect(imageRect, opts.gapPx), opts, smooth,
              DrawImage(BlankCanvas(CanvasSize(img.w), CanvasSize(img.h)), "source-over",
                        img, Whole(img), imageRect, smooth))

createBorderMask(img, options, smooth) ==
    MaskStep(img,
             <<CentreOffset(CanvasSize(img.w), img.w), CentreOffset(CanvasSize(img.h), img.h),
               2 * img.w, 2 * img.h>>,
             MergeOptions(options), smooth)

\* ---------------------------------------------------- applyHandDrawnEffect
\* lengths in units of 1/40 pixel
Sub(n) == 40 * n

\* Math.max(4, Math.floor(Math.min(w, h) / 200))
SampleRate(w, h) == Max(4, Min(w, h) \div 200)

\* the grid points of the ring canvas whose alpha is > 0
ContourRegions(cv) ==
    LET sampleRate == SampleRate(cv.w, cv.h)
    IN  {p \in Pixels(cv.w, cv.h) :
            /\ p[1] % sampleRate = 0
            /\ p[2] % sampleRate = 0
            /\ cv.px[p].a > 0}

\* Math.max(500, Math.floor(contourRegions.length * 0.3))
Density(n) == Max(500, (n * 3) \div 10)

(* Math.random() is drawn as a number of quarters q, standing for q / 4.   *)
(* The levels each draw of one loop iteration ranges over:                 *)
OffsetLevels == {0, 2}     \* offsetX, offsetY
JitterLevels == {0}        \* jx, jy
KindLevels == {0, 2}       \* Math.random() < dotRatio
SizeLevels == {0}          \* dot size, line length, line width
AngleLevels == {0, 1}      \* angle

\* random(min, max) = Math.random() * (max - min) + min, in 1/40 pixel
random(q, min, max) == 10 * q * (max - min) + Sub(min)

\* the random numbers of one iteration of the loop
Draws(regions) ==
    [base : regions, ox : OffsetLevels, oy : OffsetLevels,
     jx : JitterLevels, jy : JitterLevels, kind : KindLevels,
     size : SizeLevels, angle : AngleLevels, width : SizeLevels]

(* The primitive one iteration paints on the stencil: a segment from       *)
(* <<x1, y1>> to <<x2, y2>> thickened by r (a dot is a segment of length   *)
(* 0), all in 1/40 pixel; none when the iteration is skipped by continue.  *)
Primitive(d, opts, w, h) ==
    LET sampleRate == SampleRate(w, h)
        offsetX == (d.ox - 2) * 20 * sampleRate
        offsetY == (d.oy - 2) * 20 * sampleRate
        x == Sub(d.base[1]) + offsetX
        y == Sub(d.base[2]) + offsetY
        jx == ((d.jx - 2) * opts.jitterAmount) \div 2
        jy == ((d.jy - 2) * opts.jitterAmount) \div 2
        \* Math.random() < dotRatio, dotRatio = 0.4
        isDot == 10 * d.kind < 16
        r == random(d.size, opts.dotSizeRange[1], opts.dotSizeRange[2]) \div 2
        len == random(d.size, opts.lineLengthRange[1], opts.lineLengthRange[2])
        \* angle = q / 4 * 2 * PI: cosine and sine
        cos == <<1, 0, -1, 0>>[d.angle + 1]
        sin == <<0, 1, 0, -1>>[d.angle + 1]
        dx == (cos * len) \div 2
        dy == (sin * len) \div 2
        \* lineWidth = random(strokePx * 0.6, strokePx * 1.2), halved
        \* (a lineWidth that is not positive is ignored: the width stays 1)
        halfWidth == IF opts.strokePx > 0
                     THEN 12 * opts.strokePx + 3 * d.width * opts.strokePx
                     ELSE 20
    IN  IF x < 0 \/ x >= Sub(w) \/ y < 0 \/ y >= Sub(h)
        THEN [drawn |-> FALSE, x1 |-> 0, y1 |-> 0, x2 |-> 0, y2 |-> 0, r |-> 0]
        ELSE IF isDot
        THEN [drawn |-> TRUE, x1 |-> x + jx, y1 |-> y + jy,
              x2 |-> x + jx, y2 |-> y + jy, r |-> r]
        \* a line of length 0 is pruned from the path before it is stroked
        \* (HTML standard, "trace a path"), round caps included
        ELSE [drawn |-> len # 0,
              x1 |-> Min(x - dx + jx, x + dx + jx), y1 |-> Min(y - dy + jy, y + dy + jy),
              x2 |-> Max(x - dx + jx, x + dx + jx), y2 |-> Max(y - dy + jy, y + dy + jy),
              r |-> halfWidth]

\* distance between the intervals [a1, a2] and [b1, b2]
Gap(a1, a2, b1, b2) == Max(0, Max(b1 - a2, a1 - b2))

(* Coverage of pixel p by a primitive, antialiased: 2 when the pixel's     *)
(* four corners are within r of the segment, 1 when part of the pixel is,  *)
(* 0 otherwise.                                                            *)
Coverage(prim, p) ==
    LET X == Sub(p[1])
        Y == Sub(p[2])
        near(u, v) ==
            LET gx == Gap(prim.x1, prim.x2, u, u)
                gy == Gap(prim.y1, prim.y2, v, v)
            IN  gx * gx + gy * gy <= prim.r * prim.r
        gx == Gap(prim.x1, prim.x2, X, X + Sub(1))
        gy == Gap(prim.y1, prim.y2, Y, Y + Sub(1))
    IN  IF ~prim.drawn \/ prim.r = 0 THEN 0
        ELSE IF near(X, Y) /\ near(X + Sub(1), Y) /\ near(X, Y + Sub(1))
                /\ near(X + Sub(1), Y + Sub(1)) THEN 2
        ELSE IF gx * gx + gy * gy < prim.r * prim.r THEN 1
        ELSE 0

\* the pixels a primitive covers on a w x h stencil
Footprint(prim, w, h) == [p \in Pixels(w, h) |-> Coverage(prim, p)]

(* The footprints the iterations of the loop can paint on the stencil of   *)
(* borderCanvas, one for each outcome of an iteration's random numbers.    *)
PaintedShapes(borderCanvas, options) ==
    LET opts == MergeOptions(options)
        w == borderCanvas.w
        h == borderCanvas.h
        prims == {Primitive(d, opts, w, h) : d \in Draws(ContourRegions(borderCanvas))}
    IN  {Footprint(pr, w, h) : pr \in prims}

\* Stencil with an opaque white background in place of the cleared one
StencilOpaqueBackground(shapes, w, h) ==
    [w |-> w, h |-> h, px |-> [p \in Pixels(w, h) |-> [a |-> 2, c |-> "#ffffff"]]]

\* the stencil canvas after the loop painted the footprints in shapes
Stencil(shapes, w, h) ==
    LET alpha(p) ==
            LET cov == {f[p] : f \in shapes}
            IN  IF 2 \in cov THEN 2 ELSE IF 1 \in cov THEN 1 ELSE 0
    IN  [w |-> w, h |-> h,
         px |-> [p \in Pixels(w, h) |->
                    IF alpha(p) = 0 THEN Transparent
                    ELSE [a |-> alpha(p), c |-> "#ffffff"]]]

\* applyHandDrawnEffect with the stencil drawn 'source-over'
applyHandDrawnEffectSourceOver(borderCanvas, options, shapes, smooth) ==
    LET stencil == Stencil(shapes, borderCanvas.w, borderCanvas.h)
    IN  IF ContourRegions(borderCanvas) = {} THEN borderCanvas
        ELSE DrawImage(borderCanvas, "source-over", stencil,
                       Whole(stencil), Whole(stencil), smooth)

\* applyHandDrawnEffect that clears the canvas when it finds no contour region
applyHandDrawnEffectClearing(borderCanvas, options, shapes, smooth) ==
    LET stencil == Stencil(shapes, borderCanvas.w, borderCanvas.h)
    IN  IF ContourRegions(borderCanvas) = {}
        THEN BlankCanvas(borderCanvas.w, borderCanvas.h)
        ELSE DrawImage(borderCanvas, "destination-in", stencil,
                       Whole(stencil), Whole(stencil), smooth)

(* applyHandDrawnEffect(borderCanvas, options) when the iterations of its  *)
(* loop paint the footprints in shapes: the border canvas it leaves.       *)
(* smooth is the platform's image smoothing.                               *)
applyHandDrawnEffect(borderCanvas, options, shapes, smooth) ==
    LET stencil == Stencil(shapes, borderCanvas.w, borderCanvas.h)
    IN  IF ContourRegions(borderCanvas) = {} THEN borderCanvas
        ELSE DrawImage(borderCanvas, "destination-in", stencil,
                       Whole(stencil), Whole(stencil), smooth)

\* the non-empty subsets of S of at most k elements
RECURSIVE UpTo(_, _)
UpTo(S, k) ==
    IF k <= 1 THEN {{d} : d \in S}
    ELSE LET less == UpTo(S, k - 1)
         IN  less \cup {T \cup {d} : T \in less, d \in S}

(* The loop runs Density(n) times; its iterations paint a set of distinct  *)
(* footprints, of which at most MaxPrims are told apart.                   *)
ShapeSets(borderCanvas, options) ==
    LET n == Cardinality(ContourRegions(borderCanvas))
    IN  IF n = 0 THEN {{}}
        ELSE UpTo(PaintedShapes(borderCanvas, options), Min(MaxPrims, Density(n)))

\* ------------------------------------------------------------------ images
\* the colour of the pixels of a source image
ImageColour == "img"

Image(w, h, alpha(_, _)) ==
    [w |-> w, h |-> h,
     px |-> [p \in Pixels(w, h) |->
                IF alpha(p[1], p[2]) = 0 THEN Transparent
                ELSE [a |-> alpha(p[1], p[2]), c |-> ImageColour]]]

\* a fully opaque photo
FullImage(w, h) == LET al(x, y) == 2 IN Image(w, h, al)
\* a cutout shaped like an L: the left column and the bottom row
LImage(w, h) == LET al(x, y) == IF x = 0 \/ y = h - 1 THEN 2 ELSE 0 IN Image(w, h, al)
\* a cutout shaped like the ellipse inscribed in the image
DiscImage(w, h) ==
    LET al(x, y) == IF (2 * x + 1 - w) * (2 * x + 1 - w) * h * h
                        + (2 * y + 1 - h) * (2 * y + 1 - h) * w * w <= w * w * h * h
                    THEN 2 ELSE 0
    IN  Image(w, h, al)
\* a cutout with a soft edge: the outermost pixels partially transparent
SoftImage(w, h) ==
    LET al(x, y) == IF x = 0 \/ y = 0 \/ x = w - 1 \/ y = h - 1 THEN 1 ELSE 2
    IN  Image(w, h, al)
\* a cutout of one pixel in a corner
DotImage(w, h) == LET al(x, y) == IF x = 0 /\ y = 0 THEN 2 ELSE 0 IN Image(w, h, al)
\* an image with no opaque pixel
EmptyImage(w, h) == LET al(x, y) == 0 IN Image(w, h, al)

ImagesOf(w, h) ==
    {FullImage(w, h), LImage(w, h), DiscImage(w, h), SoftImage(w, h),
     DotImage(w, h), EmptyImage(w, h)}

\* the images of the model: square, or one pixel wider than high
Images ==
    UNION {ImagesOf(w, w) \cup ImagesOf(w, Max(1, w - 1)) : w \in 1 .. MaxDim}

\* the option objects of the model
OptionObjects ==
    {[gapPx |-> g, strokePx |-> s] : g \in 0 .. MaxGap, s \in 1 .. MaxStroke}
    \cup {[gapPx |-> g, strokePx |-> s, color |-> "#ff0000"] :
             g \in 0 .. MaxGap, s \in 1 .. MaxStroke}
    \cup {[gapPx |-> g, strokePx |-> s,
           dotSizeRange |-> <<0, 0>>, lineLengthRange |-> <<0, 0>>] :
             g \in 0 .. MaxGap, s \in 1 .. MaxStroke}

\* ------------------------------------------------------------------- state
VARIABLES
    calls,       \* the calls of applyContourBorder: their arguments and locals
    smoothing,   \* the platform's imageSmoothingEnabled behaviour of drawImage
    scan,        \* a reader of a ring canvas: the row read last and its ring pixels
    element,     \* ContourBorderedImage as rendered: its props and its effect
    component,   \* ContourBorderedImage's useState values
    refs,        \* ContourBorderedImage's useRef values
    runs,        \* the runs of its effect: their timers and their promise
    editor,      \* CanvasEditor's state written by onBorderComplete
    imageFile,   \* the ImageFile CanvasEditor edits, as the journal store holds it
    previews,    \* the ContourBorderedImage instances CanvasEditor has rendered
    painter,     \* ImageEditor: its canvas and its undo history
    uploader,    \* the upload page's images and the processFiles calls in flight
    journal      \* the journal store: pages and currentPageIndex

vars == <<calls, smoothing, scan, element, component, refs, runs, editor,
          imageFile, previews, painter, uploader, journal>>

\* the state of lib/contour-border and the state of the component around it
library == <<calls, smoothing, scan>>
wrapper == <<element, component, refs, runs, editor>>
\* the state of the pages and components around them
app == <<imageFile, previews, painter, uploader, journal>>

Calls == {1, 2}

\* applyContourBorder(imageUrl, options) up to img.src = imageUrl
NewCall(img, options) ==
    [pc |-> "loading", img |-> img, options |-> options, error |-> "none",
     opts |-> <<>>, canvasWidth |-> 0, canvasHeight |-> 0, imageX |-> 0, imageY |-> 0,
     maskImageX |-> 0, maskImageY |-> 0,
     maskCanvas |-> NoCanvas, innerCanvas |-> NoCanvas, outerSilhouette |-> NoCanvas,
     ring |-> NoCanvas, borderCanvas |-> NoCanvas, finalCanvas |-> NoCanvas]

\* a call that is never made
NoCall == [NewCall(NoCanvas, <<>>) EXCEPT !.pc = "none"]

\* --------------------------------------------- ContourBorderedImage: state
Timeout == 30000      \* setTimeout(..., 30000): the timeout protection, in ms
StartDelay == 50      \* setTimeout(..., 50) before applyContourBorder is called
DoneDelay == 100      \* setTimeout(..., 100) before the result is shown

MaxRuns == 2          \* the runs of the effect that start a call
TimeStep == 10000     \* the step of the clock between two timers, in ms
MaxAge == 40000       \* the age up to which a pending call is timed, in ms

Runs == 1 .. MaxRuns
Srcs == {"a", "b"}
Null == "null"

\* a run of the effect not made yet; a timer that is not set is -1
NoRun == [state |-> "none", src |-> Null, timeout |-> -1, start |-> -1, done |-> -1,
          age |-> 0, timedOut |-> FALSE]

\* no data URL
NoUrl == [src |-> Null, run |-> 0]

\* the data URL run r of the effect resolves with
Url(r) == [src |-> runs[r].src, run |-> r]

\* useState and useRef initial values (lines 36-44), nothing rendered yet
NewComponent ==
    [borderedImageUrl |-> NoUrl, isLoading |-> TRUE, error |-> Null,
     progressMessage |-> "preparing"]
NewRefs == [timeoutRef |-> 0, processedRef |-> Null, isProcessingRef |-> FALSE]

\* no ContourBorderedImage is rendered
NoComponent ==
    /\ element = [mounted |-> FALSE, src |-> Null, showBorder |-> TRUE, cleanup |-> FALSE]
    /\ component = NewComponent
    /\ refs = NewRefs
    /\ runs = [r \in Runs |-> NoRun]

\* no ContourBorderedImage is rendered, and its parent holds no result
Unrendered ==
    /\ NoComponent
    /\ editor = [borderedImageUrl |-> NoUrl]

\* --------------------------------------------------- the pages: idle state
\* no image file, no data URL
NoPicture == [kind |-> "none", size |-> 0, rings |-> 0, gapPx |-> 0, strokePx |-> 0,
              erased |-> 0]

\* no image is being edited
NoImage == [url |-> NoPicture, processedUrl |-> NoPicture, editedUrl |-> NoPicture,
            borderedUrl |-> NoPicture]
NoPreviews == [runs |-> <<>>, due |-> <<>>, instance |-> 0, made |-> 0, key |-> <<>>,
               src |-> NoPicture]
NoEditing == imageFile = NoImage /\ previews = NoPreviews

\* ImageEditor's src, or a data URL of its history: the image it encodes is the
\* initial image less the strokes listed in erased.  NoSrc is the empty string.
NoSrc == [kind |-> "none", erased |-> {}]

\* ImageEditor as its hooks create it: empty history, indices -1, not drawing.
NoPainter == [canvas |-> {}, src |-> NoSrc, lastSrcRef |-> NoSrc,
              history |-> <<>>, historyIndex |-> -1,
              historyRef |-> <<>>, historyIndexRef |-> -1,
              isDrawing |-> FALSE, loading |-> <<>>, strokes |-> 0]

NoPainting == painter = NoPainter
\* The upload page as UploadPage creates it: no image, no processFiles call running.
NoUploader == [images |-> 0, calls |-> <<>>]

NoUploading == uploader = NoUploader
\* A page of the journal as createEmptyPage makes it (its images only).
createEmptyPage == [images |-> <<>>]

\* The journal store as it is created, and after reset.
NewJournal == [pages |-> <<createEmptyPage>>, currentPageIndex |-> 0]

NoJournal == journal = NewJournal

\* no page or component other than those of the specification at hand
AppIdle == NoEditing /\ NoPainting /\ NoUploading /\ NoJournal

\* no row of a ring canvas read yet
NoScan == [y |-> -1, ring |-> {}]

TypeOK ==
    /\ smoothing \in BOOLEAN
    /\ scan.y \in Int
    /\ \A c \in Calls :
        /\ calls[c].pc \in {"none", "loading", "maskLoading", "maskResolved",
                            "maskRejected", "resolved", "rejected"}
        /\ calls[c].error \in {"none", "load", "throw"}
    /\ element.mounted \in BOOLEAN /\ element.showBorder \in BOOLEAN
    /\ element.src \in Srcs \cup {Null}
    /\ component.isLoading \in BOOLEAN
    /\ component.error \in {Null, "timeout", "failed"}
    /\ refs.timeoutRef \in Runs \cup {0}
    /\ refs.isProcessingRef \in BOOLEAN
    /\ \A r \in Runs :
        /\ runs[r].state \in {"none", "scheduled", "pending", "resolved", "rejected",
                              "delivered"}
        /\ runs[r].timeout \in -1 .. Timeout
        /\ runs[r].age \in 0 .. MaxAge

\* one call, of any image with any options
Init ==
    /\ smoothing \in BOOLEAN
    /\ scan = NoScan
    /\ Unrendered
    /\ AppIdle
    /\ \E img \in Images, options \in OptionObjects :
          calls = [c \in Calls |-> IF c = 1 THEN NewCall(img, options) ELSE NoCall]

\* ----------------------------------------------------------------- actions
\* OnLoad with the image placed at the top left corner of the final canvas
OnLoadTopLeft(c) ==
    /\ calls[c].pc = "loading"
    /\ calls' = [calls EXCEPT ![c].pc = "maskLoading",
                              ![c].opts = MergeOptions(calls[c].options),
                              ![c].canvasWidth = CanvasSize(calls[c].img.w),
                              ![c].canvasHeight = CanvasSize(calls[c].img.h),
                              ![c].imageX = 0,
                              ![c].imageY = 0]
    /\ UNCHANGED <<smoothing, scan, wrapper, app>>

(* img.onload of applyContourBorder, up to the await of createBorderMask.  *)
(* imageX and imageY are in half pixels.                                   *)
OnLoad(c) ==
    /\ calls[c].pc = "loading"
    /\ LET imageWidth == calls[c].img.w
           imageHeight == calls[c].img.h
           canvasWidth == CanvasSize(imageWidth)
           canvasHeight == CanvasSize(imageHeight)
       IN  calls' = [calls EXCEPT ![c].pc = "maskLoading",
                                  ![c].opts = MergeOptions(calls[c].options),
                                  ![c].canvasWidth = canvasWidth,
                                  ![c].canvasHeight = canvasHeight,
                                  ![c].imageX = CentreOffset(canvasWidth, imageWidth),
                                  ![c].imageY = CentreOffset(canvasHeight, imageHeight)]
    /\ UNCHANGED <<smoothing, scan, wrapper, app>>

\* img.onerror of applyContourBorder: reject(new Error(...))
OnError(c) ==
    /\ calls[c].pc = "loading"
    /\ calls' = [calls EXCEPT ![c].pc = "rejected", ![c].error = "load"]
    /\ UNCHANGED <<smoothing, scan, wrapper, app>>

\* MaskOnLoad with the random jitter also added to gapPx
MaskOnLoadJittered(c) ==
    /\ calls[c].pc = "maskLoading"
    /\ \E j \in {0, 1} :
        LET jittered == [MergeOptions(calls[c].options) EXCEPT !.gapPx = @ + j]
            m == createBorderMask(calls[c].img, jittered, smoothing)
        IN  calls' = [calls EXCEPT ![c].pc = IF m.ok THEN "maskResolved" ELSE "maskRejected",
                                   ![c].error = IF m.ok THEN "none" ELSE "throw",
                                   ![c].maskImageX = m.imageX,
                                   ![c].maskImageY = m.imageY,
                                   ![c].maskCanvas = m.maskCanvas,
                                   ![c].innerCanvas = m.innerCanvas,
                                   ![c].outerSilhouette = m.outerSilhouette,
                                   ![c].ring = m.ring,
                                   ![c].borderCanvas = m.ring]
    /\ UNCHANGED <<smoothing, scan, wrapper, app>>

(* MaskOnLoad with one mask canvas kept for all calls: a call whose image   *)
(* loads after another call's finds that call's mask on it                 *)
MaskOnLoadSharedCanvas(c) ==
    /\ calls[c].pc = "maskLoading"
    /\ \E d \in Calls :
        /\ \/ d = c /\ \A e \in Calls : calls[e].maskCanvas = NoCanvas
           \/ d # c /\ calls[d].maskCanvas # NoCanvas
        /\ LET m == createBorderMask(calls[d].img, calls[c].options, smoothing)
           IN  calls' = [calls EXCEPT ![c].pc = IF m.ok THEN "maskResolved" ELSE "maskRejected",
                                      ![c].error = IF m.ok THEN "none" ELSE "throw",
                                      ![c].maskImageX = m.imageX,
                                      ![c].maskImageY = m.imageY,
                                      ![c].maskCanvas = m.maskCanvas,
                                      ![c].innerCanvas = m.innerCanvas,
                                      ![c].outerSilhouette = m.outerSilhouette,
                                      ![c].ring = m.ring,
                                      ![c].borderCanvas = m.ring]
    /\ UNCHANGED <<smoothing, scan, wrapper, app>>

\* img.onload of createBorderMask: resolve(outerCanvas), or reject on a throw
MaskOnLoad(c) ==
    /\ calls[c].pc = "maskLoading"
    /\ LET m == createBorderMask(calls[c].img, calls[c].options, smoothing)
       IN  calls' = [calls EXCEPT ![c].pc = IF m.ok THEN "maskResolved" ELSE "maskRejected",
                                  ![c].error = IF m.ok THEN "none" ELSE "throw",
                                  ![c].maskImageX = m.imageX,
                                  ![c].maskImageY = m.imageY,
                                  ![c].maskCanvas = m.maskCanvas,
                                  ![c].innerCanvas = m.innerCanvas,
                                  ![c].outerSilhouette = m.outerSilhouette,
                                  ![c].ring = m.ring,
                                  ![c].borderCanvas = m.ring]
    /\ UNCHANGED <<smoothing, scan, wrapper, app>>

\* img.onerror of createBorderMask: reject(new Error(...))
MaskOnError(c) ==
    /\ calls[c].pc = "maskLoading"
    /\ calls' = [calls EXCEPT ![c].pc = "maskRejected", ![c].error = "load"]
    /\ UNCHANGED <<smoothing, scan, wrapper, app>>

\* Compose with the border canvas drawn first and the image over it
ComposeRingFirst(call, borderCanvas, smooth) ==
    LET blank == BlankCanvas(call.canvasWidth, call.canvasHeight)
        withRing ==
            DrawImage(blank, "source-over", borderCanvas,
                      Whole(borderCanvas), Whole(borderCanvas), smooth)
    IN  DrawImage(withRing, "source-over", call.img, Whole(call.img),
                  <<call.imageX, call.imageY, 2 * call.img.w, 2 * call.img.h>>, smooth)

(* The final composition of applyContourBorder: the image at imageX,       *)
(* imageY, then the border canvas at 0, 0, both source-over.               *)
Compose(call, borderCanvas, smooth) ==
    LET blank == BlankCanvas(call.canvasWidth, call.canvasHeight)
        withImage ==
            DrawImage(blank, "source-over", call.img, Whole(call.img),
                      <<call.imageX, call.imageY, 2 * call.img.w, 2 * call.img.h>>, smooth)
    IN  DrawImage(withImage, "source-over", borderCanvas,
                  Whole(borderCanvas), Whole(borderCanvas), smooth)

\* Resume without the early return of applyHandDrawnEffect: with no contour
\* region the loop reads contourRegions[NaN].x and throws
ResumeNoEarlyReturn(c) ==
    /\ calls[c].pc = "maskResolved"
    /\ IF ContourRegions(calls[c].borderCanvas) = {}
       THEN calls' = [calls EXCEPT ![c].pc = "rejected", ![c].error = "throw"]
       ELSE \E shapes \in ShapeSets(calls[c].borderCanvas, calls[c].options) :
               LET stippled == applyHandDrawnEffect(calls[c].borderCanvas, calls[c].options,
                                                    shapes, smoothing)
               IN  calls' = [calls EXCEPT ![c].pc = "resolved",
                                          ![c].borderCanvas = stippled,
                                          ![c].finalCanvas = Compose(calls[c], stippled, smoothing)]
    /\ UNCHANGED <<smoothing, scan, wrapper, app>>

(* applyContourBorder after the await: applyHandDrawnEffect, the final     *)
(* composition and resolve(dataUrl)                                        *)
Resume(c) ==
    /\ calls[c].pc = "maskResolved"
    /\ \E shapes \in ShapeSets(calls[c].borderCanvas, calls[c].options) :
          LET stippled == applyHandDrawnEffect(calls[c].borderCanvas, calls[c].options,
                                               shapes, smoothing)
          IN  calls' = [calls EXCEPT ![c].pc = "resolved",
                                     ![c].borderCanvas = stippled,
                                     ![c].finalCanvas = Compose(calls[c], stippled, smoothing)]
    /\ UNCHANGED <<smoothing, scan, wrapper, app>>

\* applyContourBorder after the await threw: catch and reject(error)
ResumeRejected(c) ==
    /\ calls[c].pc = "maskRejected"
    /\ calls' = [calls EXCEPT ![c].pc = "rejected"]
    /\ UNCHANGED <<smoothing, scan, wrapper, app>>

Next ==
    \E c \in Calls :
        \/ OnLoad(c)
        \/ OnError(c)
        \/ MaskOnLoad(c)
        \/ MaskOnError(c)
        \/ Resume(c)
        \/ ResumeRejected(c)

Spec == Init /\ [][Next]_vars

\* ------------------------------------------------------------- two calls
\* the images two calls are made with
PairImages == ImagesOf(MaxDim, MaxDim)

\* two calls with identical image and options, their handlers interleaved
InitPair ==
    /\ smoothing \in BOOLEAN
    /\ scan = NoScan
    /\ Unrendered
    /\ AppIdle
    /\ \E img \in PairImages, options \in OptionObjects :
          calls = [c \in Calls |-> NewCall(img, options)]

SpecPair == InitPair /\ [][Next]_vars

\* ------------------------------------------ two calls of different images
\* the images and the options of the first and of the second call
FirstImages == ImagesOf(2, 2)
SecondImages == ImagesOf(3, 2)
FirstOptions == [gapPx |-> 0, strokePx |-> 1]
SecondOptions == [gapPx |-> 1, strokePx |-> 1, color |-> "#ff0000"]

\* two calls with different images and options, their handlers interleaved
InitInterleaved ==
    /\ smoothing \in BOOLEAN
    /\ scan = NoScan
    /\ Unrendered
    /\ AppIdle
    /\ \E first \in FirstImages, second \in SecondImages :
          calls = [c \in Calls |-> IF c = 1 THEN NewCall(first, FirstOptions)
                                   ELSE NewCall(second, SecondOptions)]

SpecInterleaved == InitInterleaved /\ [][Next]_vars

\* ------------------------------------------- options outside their ranges
(* Options whose gapPx or strokePx is negative: for the smaller images of  *)
(* the model the computed inner or outer width is then zero or negative.   *)
NegativeOptions ==
    {[gapPx |-> -g, strokePx |-> 1] : g \in 1 .. MaxGap + 1}
    \cup {[gapPx |-> 0, strokePx |-> -s] : s \in 1 .. MaxStroke + 1}

\* one call, of any image, with a negative gapPx or strokePx
InitGeometry ==
    /\ smoothing \in BOOLEAN
    /\ scan = NoScan
    /\ Unrendered
    /\ AppIdle
    /\ \E img \in Images, options \in NegativeOptions :
          calls = [c \in Calls |-> IF c = 1 THEN NewCall(img, options) ELSE NoCall]

SpecGeometry == InitGeometry /\ [][Next]_vars

\* options whose lineLengthRange or dotSizeRange has min > max
InvertedRangeOptions ==
    {[gapPx |-> g, strokePx |-> s, dotSizeRange |-> <<5, 3>>] :
        g \in 0 .. MaxGap, s \in 1 .. MaxStroke}
    \cup {[gapPx |-> g, strokePx |-> s, lineLengthRange |-> <<40, 20>>] :
        g \in 0 .. MaxGap, s \in 1 .. MaxStroke}

\* one call, of any image, with an inverted range
InitRanges ==
    /\ smoothing \in BOOLEAN
    /\ scan = NoScan
    /\ Unrendered
    /\ AppIdle
    /\ \E img \in Images, options \in InvertedRangeOptions :
          calls = [c \in Calls |-> IF c = 1 THEN NewCall(img, options) ELSE NoCall]

SpecRanges == InitRanges /\ [][Next]_vars

\* ---------------------------------------------------- images of no size
\* the images that load with naturalWidth or naturalHeight 0
ZeroSizeImages ==
    {EmptyImage(w, 0) : w \in 0 .. MaxDim} \cup {EmptyImage(0, h) : h \in 1 .. MaxDim}

\* one call, of an image of no size or of a one-pixel image
InitDecode ==
    /\ smoothing \in BOOLEAN
    /\ scan = NoScan
    /\ Unrendered
    /\ AppIdle
    /\ \E img \in ZeroSizeImages \cup ImagesOf(1, 1), options \in OptionObjects :
          calls = [c \in Calls |-> IF c = 1 THEN NewCall(img, options) ELSE NoCall]

SpecDecode == InitDecode /\ [][Next]_vars

\* ------------------------------------------------- the documented defaults
WideDim == 32      \* the width of the images the default options are run on

\* the defaults as documented: color=white, gapPx=10, strokePx=5,
\* lineLengthRange=[20,40], dotSizeRange=[3,5], spacing=12, jitterAmount=1.5
DocumentedDefaults ==
    [color |-> "#ffffff", gapPx |-> 10, strokePx |-> 5,
     lineLengthRange |-> <<20, 40>>, dotSizeRange |-> <<3, 5>>,
     spacing |-> 12, jitterAmount |-> 60]

\* record r with only the fields in K
Restrict(r, K) == [k \in K |-> r[k]]

\* the option objects that give one documented default or leave one out,
\* the empty object and the complete one
PartialDefaults ==
    {Restrict(DocumentedDefaults, K) :
        K \in {L \in SUBSET DOMAIN DocumentedDefaults :
                  Cardinality(L) <= 1 \/ Cardinality(L) >= 6}}

\* call 1 with some of the defaults left out, call 2 with all of them given
InitDefaults ==
    /\ smoothing \in BOOLEAN
    /\ scan = NoScan
    /\ Unrendered
    /\ AppIdle
    /\ \E img \in {FullImage(WideDim, 1)}, options \in PartialDefaults :
          calls = [c \in Calls |-> IF c = 1 THEN NewCall(img, options)
                                   ELSE NewCall(img, DocumentedDefaults)]

SpecDefaults == InitDefaults /\ [][Next]_vars

\* ----------------------------------------------- Scenario A, read row by row
(* A circular subject: alpha 255 within 80 pixels of the centre of a       *)
(* 200 x 200 image, transparent outside.                                   *)
ScenarioImage ==
    LET al(x, y) == IF (2 * x + 1 - 200) * (2 * x + 1 - 200)
                        + (2 * y + 1 - 200) * (2 * y + 1 - 200) <= 160 * 160
                    THEN 2 ELSE 0
    IN  Image(200, 200, al)

ScenarioOptions == [gapPx |-> 10, strokePx |-> 5]

\* the solid ring createBorderMask resolves with in Scenario A
ScenarioRing == createBorderMask(ScenarioImage, ScenarioOptions, smoothing).ring

InitScenario ==
    /\ smoothing \in BOOLEAN
    /\ scan = NoScan
    /\ Unrendered
    /\ AppIdle
    /\ calls = [c \in Calls |-> NoCall]

\* getImageData of the next row of the ring: the pixels with alpha > 0
ReadRingRow ==
    /\ scan.y < ScenarioRing.h - 1
    /\ scan' = [y |-> scan.y + 1,
                ring |-> {x \in 0 .. ScenarioRing.w - 1 :
                             ScenarioRing.px[<<x, scan.y + 1>>].a > 0}]
    /\ UNCHANGED <<calls, smoothing, wrapper, app>>

SpecScenario == InitScenario /\ [][ReadRingRow]_vars

\* ------------------------------------------- ContourBorderedImage: actions
(* The component is modelled with the promise of applyContourBorder        *)
(* settling at any time or never.  A change of props, the cleanup of the   *)
(* effect and the effect's next run are one step; timers that are due at   *)
(* the same instant fire in any order.                                     *)

\* clearTimeout(id); the timer of run id is its timeout timer
ClearTimeout(rs, id) == IF id = 0 THEN rs ELSE [rs EXCEPT ![id].timeout = -1]

\* the run the effect starts next
FreeRuns(rs) == {r \in Runs : rs[r].state = "none"}

(* The effect (lines 46-126) run for the props src and showBorder, rs      *)
(* being the runs after the cleanup of the effect's last run.              *)
RunEffect(src, showBorder, rs) ==
    IF ~showBorder
    THEN /\ component' = [component EXCEPT !.isLoading = FALSE]
         /\ refs' = refs
         /\ runs' = rs
         /\ element' = [mounted |-> TRUE, src |-> src, showBorder |-> showBorder,
                        cleanup |-> FALSE]
    ELSE IF refs.isProcessingRef \/ refs.processedRef = src
    THEN /\ component' = component
         /\ refs' = refs
         /\ runs' = rs
         /\ element' = [mounted |-> TRUE, src |-> src, showBorder |-> showBorder,
                        cleanup |-> FALSE]
    ELSE /\ FreeRuns(rs) # {}
         /\ \E r \in FreeRuns(rs) :
              /\ \A q \in FreeRuns(rs) : r <= q
              /\ component' = [component EXCEPT !.isLoading = TRUE,
                                                !.error = Null,
                                                !.progressMessage = "detecting"]
              /\ refs' = [refs EXCEPT !.isProcessingRef = TRUE, !.timeoutRef = r]
              /\ runs' = [ClearTimeout(rs, refs.timeoutRef) EXCEPT
                              ![r] = [NoRun EXCEPT !.state = "scheduled",
                                                   !.src = src,
                                                   !.timeout = Timeout,
                                                   !.start = StartDelay]]
              /\ element' = [mounted |-> TRUE, src |-> src, showBorder |-> showBorder,
                             cleanup |-> TRUE]

\* the first render: the effect runs for the initial props
Mount ==
    /\ ~element.mounted
    /\ \E src \in Srcs, showBorder \in BOOLEAN : RunEffect(src, showBorder, runs)
    /\ UNCHANGED <<editor, library, app>>

(* src or showBorder change: the cleanup the effect's last run returned    *)
(* (lines 128-132), if it returned one, then the effect again              *)
PropChange ==
    /\ element.mounted
    /\ \E src \in Srcs, showBorder \in BOOLEAN :
          /\ <<src, showBorder>> # <<element.src, element.showBorder>>
          /\ RunEffect(src, showBorder,
                       IF element.cleanup THEN ClearTimeout(runs, refs.timeoutRef)
                       ELSE runs)
    /\ UNCHANGED <<editor, library, app>>

\* the 50 ms timer (lines 82-85): applyContourBorder(currentSrc, borderOptions)
StartCall(r) ==
    /\ runs[r].start = 0
    /\ runs' = [runs EXCEPT ![r].start = -1, ![r].state = "pending", ![r].age = 0]
    /\ UNCHANGED <<element, component, refs, editor, library, app>>

\* OnResolved that leaves the 30 s timer running
OnResolvedKeepsTimer(r) ==
    /\ runs[r].state = "pending"
    /\ runs' = [runs EXCEPT ![r].state = "resolved", ![r].done = DoneDelay]
    /\ refs' = [refs EXCEPT !.timeoutRef = 0]
    /\ component' = [component EXCEPT !.progressMessage = "generating"]
    /\ UNCHANGED <<element, editor, library, app>>

\* the promise resolves: the .then handler (lines 86-98)
OnResolved(r) ==
    /\ runs[r].state = "pending"
    /\ runs' = [ClearTimeout(runs, refs.timeoutRef) EXCEPT ![r].state = "resolved",
                                                           ![r].done = DoneDelay]
    /\ refs' = [refs EXCEPT !.timeoutRef = 0]
    /\ component' = [component EXCEPT !.progressMessage = "generating"]
    /\ UNCHANGED <<element, editor, library, app>>

\* the promise rejects: the .catch handler (lines 110-124)
OnRejected(r) ==
    /\ runs[r].state = "pending"
    /\ runs' = [ClearTimeout(runs, refs.timeoutRef) EXCEPT ![r].state = "rejected"]
    /\ refs' = [refs EXCEPT !.timeoutRef = 0, !.isProcessingRef = FALSE]
    /\ component' = [component EXCEPT !.error = "failed",
                                      !.isLoading = FALSE,
                                      !.progressMessage = "failed"]
    /\ UNCHANGED <<element, editor, library, app>>

(* the 100 ms timer (lines 98-108): the result is shown and handed to      *)
(* onBorderComplete, CanvasEditor's handleBorderComplete                   *)
Done(r) ==
    /\ runs[r].done = 0
    /\ runs' = [runs EXCEPT ![r].done = -1, ![r].state = "delivered"]
    /\ component' = [component EXCEPT !.borderedImageUrl = Url(r),
                                      !.isLoading = FALSE,
                                      !.progressMessage = "done"]
    /\ refs' = [refs EXCEPT !.isProcessingRef = FALSE, !.processedRef = runs[r].src]
    /\ editor' = [editor EXCEPT !.borderedImageUrl = Url(r)]
    /\ UNCHANGED <<element, library, app>>

\* the 30 s timer (lines 70-77)
TimeoutFires(r) ==
    /\ runs[r].timeout = 0
    /\ runs' = [runs EXCEPT ![r].timeout = -1, ![r].timedOut = TRUE]
    /\ component' = [component EXCEPT !.error = "timeout",
                                      !.isLoading = FALSE,
                                      !.progressMessage = "timeout"]
    /\ refs' = [refs EXCEPT !.isProcessingRef = FALSE]
    /\ UNCHANGED <<element, editor, library, app>>

\* the retry button of the error view (lines 146-154); nothing listens to
\* the 'retry' event it dispatches
Retry ==
    /\ element.mounted /\ element.showBorder
    /\ component.error # Null
    /\ component' = [component EXCEPT !.error = Null,
                                      !.isLoading = TRUE,
                                      !.progressMessage = "preparing"]
    /\ UNCHANGED <<element, refs, runs, editor, library, app>>

\* the image src unbordered
SourceImage(src) == [src |-> src, run |-> 0]

\* the image the render shows (lines 135-218): the source image when the
\* border is off, under the error view and while there is no result
Shown ==
    IF ~element.showBorder \/ component.error # Null \/ component.borderedImageUrl = NoUrl
    THEN SourceImage(element.src)
    ELSE component.borderedImageUrl

\* the timers that are set: what remains of each
Remaining == {runs[r].timeout : r \in Runs} \cup {runs[r].start : r \in Runs}
                 \cup {runs[r].done : r \in Runs}

\* d ms pass: no timer that is set is due earlier
Tick(d) ==
    /\ \A t \in Remaining : t = -1 \/ d <= t
    /\ \E r \in Runs : \/ runs[r].timeout > 0 \/ runs[r].start > 0 \/ runs[r].done > 0
                       \/ runs[r].state = "pending" /\ runs[r].age < MaxAge
    /\ runs' = [r \in Runs |->
                  [runs[r] EXCEPT
                      !.timeout = IF @ = -1 THEN -1 ELSE @ - d,
                      !.start = IF @ = -1 THEN -1 ELSE @ - d,
                      !.done = IF @ = -1 THEN -1 ELSE @ - d,
                      !.age = IF runs[r].state = "pending" THEN Min(MaxAge, @ + d) ELSE @]]
    /\ UNCHANGED <<element, component, refs, editor, library, app>>

\* time passes up to the next timer, or by TimeStep
Pass == \E d \in (Remaining \ {-1, 0}) \cup {TimeStep} : Tick(d)

InitComponent ==
    /\ smoothing = TRUE
    /\ scan = NoScan
    /\ calls = [c \in Calls |-> NoCall]
    /\ Unrendered
    /\ AppIdle

NextComponent ==
    \/ Mount
    \/ PropChange
    \/ Retry
    \/ Pass
    \/ \E r \in Runs :
          \/ StartCall(r)
          \/ OnResolved(r)
          \/ OnRejected(r)
          \/ Done(r)
          \/ TimeoutFires(r)

SpecComponent == InitComponent /\ [][NextComponent]_vars

\* ------------------------------------------------------------ CanvasEditor
(* CanvasEditor editing one image of the journal.  An image URL is         *)
(* modelled by what it shows: its size in units of the cutout's, the       *)
(* border rings drawn on it with the options of the last one, and the      *)
(* strokes erased from it.  The ContourBorderedImage instances are         *)
(* modelled by their runs of the effect; their 30 s timers, which change   *)
(* what an instance displays and not what it delivers, are left out.       *)
GapValues == {10, 11}       \* the gapPx slider: its initial value and one more
StrokeValues == {8, 9}      \* the strokePx slider: its initial value and one more
MaxRings == 3               \* the border rings on one picture
MaxErased == 1              \* the erase strokes on one picture
MaxPreviews == 3            \* the runs of ContourBorderedImage's effect

\* the image as uploaded, its background removed
Cutout == [kind |-> "file", size |-> 1, rings |-> 0, gapPx |-> 0, strokePx |-> 0,
           erased |-> 0]

\* a || b
Or(a, b) == IF a # NoPicture THEN a ELSE b

\* image.borderedUrl || image.editedUrl || image.processedUrl || image.url
getImageSource(img) == Or(img.borderedUrl, Or(img.editedUrl, Or(img.processedUrl, img.url)))

(* applyContourBorder(u, {gapPx, strokePx, ...}): a canvas twice the size  *)
(* of the image (part_007, lines 321-338) with one more ring on it         *)
Bordered(u, gapPx, strokePx) ==
    [kind |-> "data", size |-> 2 * u.size, rings |-> u.rings + 1,
     gapPx |-> gapPx, strokePx |-> strokePx, erased |-> u.erased]

\* canvas.toDataURL of ImageEditor after one more stroke of the eraser
Erased(u) == [u EXCEPT !.kind = "data", !.erased = @ + 1]

(* url.substring(0, 50): of a PNG data URL, the header up to the width; of *)
(* a file URL, what tells the file                                         *)
Prefix(u) == [kind |-> u.kind, size |-> IF u.kind = "data" THEN u.size ELSE 0]

\* useState initial values of CanvasEditor (lines 19-44)
NewEditor(img) ==
    [mode |-> "erase", gapPx |-> 10, strokePx |-> 8,
     editedImageUrl |-> getImageSource(img), borderedImageUrl |-> img.borderedUrl]

\* the key and the src of the ContourBorderedImage element (lines 288-289)
PreviewKey(ed) == <<ed.gapPx, ed.strokePx, Prefix(ed.editedImageUrl)>>
PreviewSrc(ed, img) == Or(ed.editedImageUrl, getImageSource(img))

\* a run of the effect of instance n: a call for src with the options of the
\* render that mounted the instance
NewPreview(n, ed, img) ==
    [instance |-> n, src |-> PreviewSrc(ed, img), gapPx |-> ed.gapPx,
     strokePx |-> ed.strokePx, state |-> "scheduled"]

\* isProcessingRef.current and processedRef.current of instance n
Processing(pv, n) ==
    \E i \in DOMAIN pv.runs : /\ pv.runs[i].instance = n
                              /\ pv.runs[i].state \in {"scheduled", "pending", "resolved"}
Processed(pv, n, src) ==
    \E i \in DOMAIN pv.runs :
        /\ pv.runs[i].instance = n /\ pv.runs[i].state = "delivered"
        /\ pv.runs[i].src = src
        /\ \A j \in DOMAIN pv.runs :
              (pv.runs[j].instance = n /\ pv.runs[j].state = "delivered") => j <= i

(* The render of CanvasEditor with state ed and image img, pv being the    *)
(* instances so far: a new key unmounts the instance and mounts another,   *)
(* whose effect starts a run; a new src under the same key runs the effect *)
(* again (part_002, lines 46-56).                                          *)
Render(ed, img, pv) ==
    IF ed.mode # "border"
    THEN [pv EXCEPT !.instance = 0]
    ELSE IF pv.instance = 0 \/ pv.key # PreviewKey(ed)
    THEN [runs |-> Append(pv.runs, NewPreview(pv.made + 1, ed, img)), due |-> pv.due,
          instance |-> pv.made + 1, made |-> pv.made + 1,
          key |-> PreviewKey(ed), src |-> PreviewSrc(ed, img)]
    ELSE IF pv.src = PreviewSrc(ed, img)
    THEN pv
    ELSE IF Processing(pv, pv.instance) \/ Processed(pv, pv.instance, PreviewSrc(ed, img))
    THEN [pv EXCEPT !.src = PreviewSrc(ed, img)]
    ELSE [pv EXCEPT !.runs = Append(pv.runs, NewPreview(pv.instance, ed, img)),
                    !.src = PreviewSrc(ed, img)]

\* the state after CanvasEditor has set its state to ed: rendered again
Commit(ed, img) ==
    /\ Len(Render(ed, img, previews).runs) <= MaxPreviews
    /\ editor' = ed
    /\ imageFile' = img
    /\ previews' = Render(ed, img, previews)

\* setMode (lines 136-160)
SetMode ==
    /\ \E m \in {"erase", "border", "preview"} :
          /\ m # editor.mode
          /\ Commit([editor EXCEPT !.mode = m], imageFile)
    /\ UNCHANGED <<library, element, component, refs, runs, painter, uploader, journal>>

\* the sliders of border mode (lines 250-258, 268-276)
SetGapPx ==
    /\ editor.mode = "border"
    /\ \E g \in GapValues :
          /\ g # editor.gapPx
          /\ Commit([editor EXCEPT !.gapPx = g], imageFile)
    /\ UNCHANGED <<library, element, component, refs, runs, painter, uploader, journal>>

SetStrokePx ==
    /\ editor.mode = "border"
    /\ \E k \in StrokeValues :
          /\ k # editor.strokePx
          /\ Commit([editor EXCEPT !.strokePx = k], imageFile)
    /\ UNCHANGED <<library, element, component, refs, runs, painter, uploader, journal>>

\* handleImageEdit (lines 60-63): ImageEditor has erased one more stroke
handleImageEdit ==
    /\ editor.mode = "erase"
    /\ editor.editedImageUrl.erased < MaxErased
    /\ Commit([editor EXCEPT !.editedImageUrl = Erased(@)], imageFile)
    /\ UNCHANGED <<library, element, component, refs, runs, painter, uploader, journal>>

\* the updates handleSave collects (lines 75-88)
SaveUpdates(ed, img) ==
    [editedUrl |-> IF ed.borderedImageUrl # NoPicture THEN ed.borderedImageUrl
                   ELSE IF ed.editedImageUrl # getImageSource(img) THEN ed.editedImageUrl
                   ELSE NoPicture,
     borderedUrl |-> ed.borderedImageUrl]

\* { ...img, ...updates } of updateImageInPage, for the keys that are set
Updated(img, updates) ==
    [img EXCEPT !.editedUrl = Or(updates.editedUrl, @),
                !.borderedUrl = Or(updates.borderedUrl, @)]

(* handleSave (lines 72-111) with onImageUpdate, and the effect on the     *)
(* changed image prop (lines 47-57)                                        *)
handleSave ==
    /\ LET updates == SaveUpdates(editor, imageFile)
           saved == Updated(imageFile, updates)
       IN  /\ updates.editedUrl # NoPicture
           /\ Commit([editor EXCEPT !.editedImageUrl = getImageSource(saved),
                                    !.borderedImageUrl = Or(updates.borderedUrl, @)],
                     saved)
    /\ UNCHANGED <<library, element, component, refs, runs, painter, uploader, journal>>

(* the 50 ms timer of a run (part_002, lines 82-85); unmounting clears no   *)
(* timer, and the timers of equal delay fire in the order they were set    *)
PreviewStart(i) ==
    /\ i \in DOMAIN previews.runs
    /\ previews.runs[i].state = "scheduled"
    /\ \A j \in 1 .. i - 1 : previews.runs[j].state # "scheduled"
    /\ previews.runs[i].src.rings < MaxRings
    /\ previews' = [previews EXCEPT !.runs[i].state = "pending"]
    /\ UNCHANGED <<library, wrapper, imageFile, painter, uploader, journal>>

\* the promise settles (part_002, lines 86-98, 110-124)
PreviewResolved(i) ==
    /\ i \in DOMAIN previews.runs
    /\ previews.runs[i].state = "pending"
    /\ previews' = [previews EXCEPT !.runs[i].state = "resolved", !.due = Append(@, i)]
    /\ UNCHANGED <<library, wrapper, imageFile, painter, uploader, journal>>

PreviewRejected(i) ==
    /\ i \in DOMAIN previews.runs
    /\ previews.runs[i].state = "pending"
    /\ previews' = [previews EXCEPT !.runs[i].state = "rejected"]
    /\ UNCHANGED <<library, wrapper, imageFile, painter, uploader, journal>>

(* the 100 ms timer of a resolved run (part_002, lines 98-108):            *)
(* onBorderComplete(borderedUrl), which is handleBorderComplete (lines     *)
(* 66-69), whether the instance is still mounted or not                    *)
PreviewDone(i) ==
    /\ i \in DOMAIN previews.runs
    /\ previews.runs[i].state = "resolved"
    /\ Head(previews.due) = i
    /\ editor' = [editor EXCEPT !.borderedImageUrl =
                      Bordered(previews.runs[i].src, previews.runs[i].gapPx,
                               previews.runs[i].strokePx)]
    /\ previews' = [previews EXCEPT !.runs[i].state = "delivered", !.due = Tail(@)]
    /\ UNCHANGED <<library, element, component, refs, runs, imageFile, painter, uploader,
                   journal>>

InitEditor ==
    /\ smoothing = TRUE
    /\ scan = NoScan
    /\ calls = [c \in Calls |-> NoCall]
    /\ NoComponent
    /\ imageFile = [NoImage EXCEPT !.url = Cutout]
    /\ editor = NewEditor(imageFile)
    /\ previews = NoPreviews
    /\ NoPainting /\ NoUploading /\ NoJournal

NextEditor ==
    \/ SetMode
    \/ SetGapPx
    \/ SetStrokePx
    \/ handleImageEdit
    \/ handleSave
    \/ \E i \in 1 .. MaxPreviews :
          \/ PreviewStart(i)
          \/ PreviewResolved(i)
          \/ PreviewRejected(i)
          \/ PreviewDone(i)

SpecEditor == InitEditor /\ [][NextEditor]_vars

\* ===================================================================== ImageEditor
(* ImageEditor (src/components/ResizablePanel.tsx) under CanvasEditor, which  *)
(* hands every onImageChange URL back as the src prop.  The canvas content is  *)
(* the set of strokes erased from the initial image; history and historyIndex  *)
(* are the React state, historyRef and historyIndexRef the refs.  Indices are   *)
(* the 0-based indices of the code.                                            *)

MaxStrokes == 3     \* strokes drawn in one run
MaxLoads == 1       \* undo / redo images loading at one time

\* canvas.toDataURL('image/png') and the decoding of such a URL by an Image
toDataURL(canvas) == [kind |-> "png", erased |-> canvas]
Decoded(url) == url.erased

\* history[i] of the code, undefined past the end
At(h, i) == IF i >= 0 /\ i < Len(h) THEN h[i + 1] ELSE NoSrc

\* img.onload of the initialising effect: the canvas shows src, the history is reset
Initialised(p) ==
    LET initialDataUrl == toDataURL(Decoded(p.src))
    IN  [p EXCEPT !.lastSrcRef = p.src, !.canvas = Decoded(p.src),
                  !.historyRef = <<initialDataUrl>>, !.historyIndexRef = 0,
                  !.history = <<initialDataUrl>>, !.historyIndex = 0]

\* the effect on [src, isDrawing]
InitEffect(p) ==
    IF p.src = NoSrc \/ p.isDrawing \/ p.src = p.lastSrcRef THEN p
    ELSE IF /\ p.src.kind = "png" /\ Len(p.historyRef) > 0 /\ p.historyIndexRef >= 0
            /\ p.src = At(p.historyRef, p.historyIndexRef)
         THEN [p EXCEPT !.lastSrcRef = p.src]
         ELSE Initialised(p)

\* onImageChange under CanvasEditor: the URL comes back as src and the effect runs
onImageChange(p, url) == InitEffect([p EXCEPT !.src = url])

ImageEditorStep(p) ==
    /\ painter' = p
    /\ UNCHANGED <<library, wrapper, imageFile, previews, uploader, journal>>

startDrawing ==
    /\ painter.strokes < MaxStrokes
    /\ ~painter.isDrawing
    /\ ImageEditorStep([painter EXCEPT !.isDrawing = TRUE, !.strokes = @ + 1])

drawMove ==
    /\ painter.isDrawing
    /\ painter.strokes \notin painter.canvas
    /\ ImageEditorStep([painter EXCEPT !.canvas = @ \cup {painter.strokes}])

\* the history and index stopDrawing computes from the state and the refs
StrokeHistory(p, dataUrl) ==
    LET validHistory == IF Len(p.history) > 0 THEN p.history ELSE p.historyRef
        validIndex == IF p.historyIndex >= 0 THEN p.historyIndex ELSE p.historyIndexRef
        kept == IF validIndex + 1 < Len(validHistory) THEN validIndex + 1 ELSE Len(validHistory)
    IN  IF Len(validHistory) = 0 \/ validIndex < 0 THEN <<dataUrl>>
        ELSE Append(SubSeq(validHistory, 1, kept), dataUrl)

stopDrawing ==
    /\ painter.isDrawing
    /\ LET dataUrl == toDataURL(painter.canvas)
           validHistory == StrokeHistory(painter, dataUrl)
       IN  ImageEditorStep(onImageChange(
               [painter EXCEPT !.isDrawing = FALSE,
                               !.historyRef = validHistory,
                               !.historyIndexRef = Len(validHistory) - 1,
                               !.historyIndex = Len(validHistory) - 1], dataUrl))

\* the history and the index the undo and redo buttons read
ButtonHistory(p) == IF Len(p.historyRef) > 0 THEN p.historyRef ELSE p.history
ButtonIndex(p) == IF p.historyIndexRef >= 0 THEN p.historyIndexRef ELSE p.historyIndex

Load(p, kind, newIndex, url) ==
    [p EXCEPT !.loading = Append(@, [kind |-> kind, index |-> newIndex, url |-> url])]

undo ==
    /\ ~painter.isDrawing
    /\ ButtonIndex(painter) > 0
    /\ Len(painter.loading) < MaxLoads
    /\ LET newIndex == ButtonIndex(painter) - 1
       IN  ImageEditorStep(Load(painter, "undo", newIndex, At(ButtonHistory(painter), newIndex)))

redo ==
    /\ ~painter.isDrawing
    /\ ButtonIndex(painter) < Len(ButtonHistory(painter)) - 1
    /\ Len(painter.loading) < MaxLoads
    /\ LET newIndex == ButtonIndex(painter) + 1
       IN  ImageEditorStep(Load(painter, "redo", newIndex, At(ButtonHistory(painter), newIndex)))

\* img.onload of undo and of redo
ButtonLoaded ==
    /\ painter.loading # <<>>
    /\ LET l == Head(painter.loading)
       IN  /\ l.kind \in {"undo", "redo"}
           /\ l.url # NoSrc
           /\ ImageEditorStep(onImageChange(
                  [painter EXCEPT !.loading = Tail(@), !.canvas = Decoded(l.url),
                                  !.historyIndexRef = l.index, !.historyIndex = l.index],
                  l.url))

\* Ctrl+Z: reads the history and the index of the state, moves the state's index only
handleKeyDownUndo ==
    /\ painter.historyIndex > 0
    /\ Len(painter.loading) < MaxLoads
    /\ LET newIndex == painter.historyIndex - 1
       IN  ImageEditorStep(Load([painter EXCEPT !.historyIndex = newIndex],
                                "key", newIndex, At(painter.history, newIndex)))

\* img.onload of Ctrl+Z
KeyLoaded ==
    /\ painter.loading # <<>>
    /\ LET l == Head(painter.loading)
       IN  /\ l.kind = "key"
           /\ l.url # NoSrc
           /\ ImageEditorStep(onImageChange(
                  [painter EXCEPT !.loading = Tail(@), !.canvas = Decoded(l.url)], l.url))

InitPainter ==
    /\ calls = [c \in Calls |-> NoCall] /\ smoothing = TRUE /\ scan = NoScan /\ Unrendered
    /\ NoEditing /\ NoUploading /\ NoJournal
    /\ painter = Initialised([NoPainter EXCEPT !.src = toDataURL({})])

NextPainter ==
    \/ startDrawing
    \/ drawMove
    \/ stopDrawing
    \/ undo
    \/ redo
    \/ ButtonLoaded
    \/ handleKeyDownUndo
    \/ KeyLoaded

SpecPainter == InitPainter /\ [][NextPainter]_vars

\* ===================================================================== ImageUploader
(* ImageUploader (src/unnamed/part_006) on the upload page (route.ts).  The    *)
(* page's images are counted; a running processFiles call is a record of the   *)
(* files it still has to load (toLoad) and of its validFiles so far.           *)

maxImages == 10     \* the maxImages the upload page passes
MaxFiles == 6       \* files in one selection or drop
MaxCalls == 2       \* processFiles calls running at one time

\* a selection: for every file, whether validateFile accepts it
Selections == UNION {[1..n -> BOOLEAN] : n \in 1..MaxFiles}

RECURSIVE Accepted(_)
\* the files of a list that validateFile accepts
Accepted(files) ==
    IF files = <<>> THEN 0
    ELSE (IF Head(files) THEN 1 ELSE 0) + Accepted(Tail(files))

RemoveAt(s, i) == SubSeq(s, 1, i - 1) \o SubSeq(s, i + 1, Len(s))

UploadStep(u) ==
    /\ uploader' = u
    /\ UNCHANGED <<library, wrapper, imageFile, previews, painter, journal>>

\* handleImagesSelected: the new images are appended to the page's images
handleImagesSelected(u, validFiles) == [u EXCEPT !.images = @ + validFiles]

\* the end of processFiles (after the loop) for call i
Finished(u, i) ==
    LET c == u.calls[i]
        rest == [u EXCEPT !.calls = RemoveAt(@, i)]
    IN  IF c.validFiles > 0 THEN handleImagesSelected(rest, c.validFiles) ELSE rest

\* processFiles up to its first await, or to its end when no file is left to load.
\* currentImageCount is the images.length of the render the callback was made in.
processFiles(u, files) ==
    LET remainingSlots == maxImages - u.images
        filesToProcess == SubSeq(files, 1, Min(Len(files), remainingSlots))
        call == [toLoad |-> Accepted(filesToProcess), validFiles |-> 0]
        started == [u EXCEPT !.calls = Append(@, call)]
    IN  IF remainingSlots <= 0 THEN u
        ELSE IF call.toLoad = 0 THEN Finished(started, Len(started.calls))
        ELSE started

\* handleFileInput and handleDrop
handleFileInput ==
    /\ Len(uploader.calls) < MaxCalls
    /\ \E files \in Selections : UploadStep(processFiles(uploader, files))

\* img.onload inside call i: the file joins validFiles; the loop goes on or ends
ImageLoaded(i) ==
    /\ i \in 1..Len(uploader.calls)
    /\ LET u == [uploader EXCEPT !.calls[i].toLoad = @ - 1, !.calls[i].validFiles = @ + 1]
       IN  UploadStep(IF u.calls[i].toLoad = 0 THEN Finished(u, i) ELSE u)

\* img.onerror inside call i: the await throws and processFiles ends there
ImageFailed(i) ==
    /\ i \in 1..Len(uploader.calls)
    /\ UploadStep([uploader EXCEPT !.calls = RemoveAt(@, i)])

handleRemoveImage ==
    /\ uploader.images > 0
    /\ UploadStep([uploader EXCEPT !.images = @ - 1])

InitUploader ==
    /\ calls = [c \in Calls |-> NoCall] /\ smoothing = TRUE /\ scan = NoScan /\ Unrendered
    /\ NoEditing /\ NoPainting /\ NoJournal
    /\ uploader = NoUploader

NextUploader ==
    \/ handleFileInput
    \/ \E i \in 1..MaxCalls : ImageLoaded(i)
    \/ \E i \in 1..MaxCalls : ImageFailed(i)
    \/ handleRemoveImage

SpecUploader == InitUploader /\ [][NextUploader]_vars

\* ===================================================================== journal store
(* The journal store (src/scripts/cleanup-tokens.js, lines 25-161): its pages  *)
(* with their images, and currentPageIndex (0-based, as in the code).  An      *)
(* image is its id and whether an update has been merged into it.              *)

MAX_IMAGES_PER_PAGE == 2
MaxPages == 2                   \* pages the journal grows to
ImageIds == {1, 2}
Undefined == -1                 \* an omitted pageIndex argument
JournalImages == [id : ImageIds, updated : BOOLEAN]

\* pageIndex ?? state.currentPageIndex
TargetPage(state, pageIndex) ==
    IF pageIndex = Undefined THEN state.currentPageIndex ELSE pageIndex

\* the pageIndex arguments that name a page of the journal, or are omitted
PageIndexes(state) == {Undefined} \cup (0..(Len(state.pages) - 1))

addPageTo(state) ==
    [pages |-> Append(state.pages, createEmptyPage),
     currentPageIndex |-> Len(state.pages)]

\* a variant that adds the image to the target page however many it holds
addImageToPageUnchecked(state, image, pageIndex) ==
    LET targetPageIndex == TargetPage(state, pageIndex)
        page == state.pages[targetPageIndex + 1]
    IN  [state EXCEPT !.pages[targetPageIndex + 1].images = Append(page.images, image)]

addImageToPage(state, image, pageIndex) ==
    LET targetPageIndex == TargetPage(state, pageIndex)
        page == state.pages[targetPageIndex + 1]
    IN  IF Len(page.images) >= MAX_IMAGES_PER_PAGE
        THEN IF targetPageIndex = state.currentPageIndex
             THEN [pages |-> Append(state.pages, [createEmptyPage EXCEPT !.images = <<image>>]),
                   currentPageIndex |-> Len(state.pages)]
             ELSE state
        ELSE [state EXCEPT !.pages[targetPageIndex + 1].images = Append(page.images, image)]

RECURSIVE MergedInto(_, _)
\* images.map(img => img.id === imageId ? { ...img, ...updates } : img)
MergedInto(images, imageId) ==
    IF images = <<>> THEN <<>>
    ELSE <<IF Head(images).id = imageId THEN [Head(images) EXCEPT !.updated = TRUE]
           ELSE Head(images)>> \o MergedInto(Tail(images), imageId)

updateImageInPage(state, imageId, pageIndex) ==
    LET targetPageIndex == TargetPage(state, pageIndex)
    IN  [state EXCEPT !.pages[targetPageIndex + 1].images = MergedInto(@, imageId)]

RECURSIVE Without(_, _)
\* images.filter(img => img.id !== imageId)
Without(images, imageId) ==
    IF images = <<>> THEN <<>>
    ELSE (IF Head(images).id = imageId THEN <<>> ELSE <<Head(images)>>)
         \o Without(Tail(images), imageId)

removeImageFromPage(state, imageId, pageIndex) ==
    LET targetPageIndex == TargetPage(state, pageIndex)
    IN  [state EXCEPT !.pages[targetPageIndex + 1].images = Without(@, imageId)]

JournalStep(state) ==
    /\ Len(state.pages) <= MaxPages
    /\ journal' = state
    /\ UNCHANGED <<library, wrapper, imageFile, previews, painter, uploader>>

AddPage ==
    /\ Len(journal.pages) < MaxPages
    /\ JournalStep(addPageTo(journal))

SetCurrentPage ==
    \E index \in 0..(Len(journal.pages) - 1) :
        JournalStep([journal EXCEPT !.currentPageIndex = index])

AddImageToPage ==
    \E image \in JournalImages, pageIndex \in PageIndexes(journal) :
        JournalStep(addImageToPage(journal, image, pageIndex))

UpdateImageInPage ==
    \E imageId \in ImageIds, pageIndex \in PageIndexes(journal) :
        JournalStep(updateImageInPage(journal, imageId, pageIndex))

RemoveImageFromPage ==
    \E imageId \in ImageIds, pageIndex \in PageIndexes(journal) :
        JournalStep(removeImageFromPage(journal, imageId, pageIndex))

Reset ==
    /\ journal' = NewJournal
    /\ UNCHANGED <<library, wrapper, imageFile, previews, painter, uploader>>

InitJournal ==
    /\ calls = [c \in Calls |-> NoCall] /\ smoothing = TRUE /\ scan = NoScan /\ Unrendered
    /\ NoEditing /\ NoPainting /\ NoUploading
    /\ journal = NewJournal

NextJournal ==
    \/ AddPage
    \/ SetCurrentPage
    \/ AddImageToPage
    \/ UpdateImageInPage
    \/ RemoveImageFromPage
    \/ Reset

SpecJournal == InitJournal /\ [][NextJournal]_vars

\* ===================================================================== claims
\* the calls whose createBorderMask has resolved
MaskDone == {c \in Calls : calls[c].pc \in {"maskResolved", "resolved"}}
Resolved == {c \in Calls : calls[c].pc = "resolved"}

PixelsOf(cv) == Pixels(cv.w, cv.h)
Opaque(cv) == {p \in PixelsOf(cv) : cv.px[p].a > 0}

\* the pixel columns (or rows) from x to the centre of a canvas of size n
TowardsCentre(x, n) == IF x >= n \div 2 THEN (n \div 2) .. x ELSE x .. (n \div 2) - 1

(* A mask is star-shaped about the canvas centre when, with each of its    *)
(* pixels, it holds every pixel of the rectangle between that pixel and    *)
(* the centre.                                                             *)
StarShaped(cv) ==
    \A p \in Opaque(cv) :
        \A x \in TowardsCentre(p[1], cv.w), y \in TowardsCentre(p[2], cv.h) :
            cv.px[<<x, y>>].a > 0

OuterContainsInner(c) == Opaque(calls[c].innerCanvas) \subseteq Opaque(calls[c].outerSilhouette)

C2_StippleInsideRing ==
    \A c \in Resolved : Opaque(calls[c].borderCanvas) \subseteq Opaque(calls[c].ring)

C2_Witness ==
    \E c \in Resolved :
        /\ ContourRegions(calls[c].ring) # {}
        /\ Opaque(calls[c].borderCanvas) # {}
        /\ Opaque(calls[c].ring) \ Opaque(calls[c].borderCanvas) # {}

C4_CanvasHoldsOuterBox ==
    \A c \in MaskDone :
        LET grow == 2 * (calls[c].opts.gapPx + calls[c].opts.strokePx)
        IN  /\ calls[c].maskCanvas.w >= calls[c].img.w + grow
            /\ calls[c].maskCanvas.h >= calls[c].img.h + grow
            /\ c \in Resolved =>
                  /\ calls[c].finalCanvas.w >= calls[c].img.w + grow
                  /\ calls[c].finalCanvas.h >= calls[c].img.h + grow

\* four times the squared distance of the centre of pixel <<x, y>> from the
\* centre of the 400 x 400 canvas of Scenario A
Dist4(x, y) == (2 * x + 1 - 400) * (2 * x + 1 - 400) + (2 * y + 1 - 400) * (2 * y + 1 - 400)

\* C5 as stated, to within one pixel: in Scenario A every ring pixel lies
\* between 89 and 96 pixels from the centre (about 90 to 95), and the pixels
\* between 91 and 94 pixels from the centre are ring pixels.
C5_RingBetween90And95 ==
    scan.y >= 0 =>
        /\ \A x \in scan.ring :
              4 * 89 * 89 <= Dist4(x, scan.y) /\ Dist4(x, scan.y) <= 4 * 96 * 96
        /\ \A x \in 0 .. 399 :
              (4 * 91 * 91 <= Dist4(x, scan.y) /\ Dist4(x, scan.y) <= 4 * 94 * 94)
                  => x \in scan.ring

PixelInside(p, r) ==
    /\ 2 * p[1] >= r[1] /\ 2 * p[1] + 2 <= r[1] + r[3]
    /\ 2 * p[2] >= r[2] /\ 2 * p[2] + 2 <= r[2] + r[4]
PixelOutside(p, r) ==
    \/ 2 * p[1] + 2 <= r[1] \/ 2 * p[1] >= r[1] + r[3]
    \/ 2 * p[2] + 2 <= r[2] \/ 2 * p[2] >= r[2] + r[4]

\* the (W + 2*gapPx) x (H + 2*gapPx) rectangle centred on the image of call c
\* and the one 2*strokePx larger, in half pixels
InnerBox(c) ==
    <<calls[c].img.w - 2 * calls[c].opts.gapPx, calls[c].img.h - 2 * calls[c].opts.gapPx,
      2 * calls[c].img.w + 4 * calls[c].opts.gapPx, 2 * calls[c].img.h + 4 * calls[c].opts.gapPx>>
OuterBox(c) ==
    <<InnerBox(c)[1] - 2 * calls[c].opts.strokePx, InnerBox(c)[2] - 2 * calls[c].opts.strokePx,
      InnerBox(c)[3] + 4 * calls[c].opts.strokePx, InnerBox(c)[4] + 4 * calls[c].opts.strokePx>>

FullyOpaque(img) == \A p \in PixelsOf(img) : img.px[p].a = 2

\* the ring of call c is present, in the ring colour, on the pixels that lie
\* wholly inside the frame between the two boxes, and transparent on the
\* pixels that lie wholly outside it
RingCoversFrame(c) ==
    \A p \in PixelsOf(calls[c].ring) :
        /\ (PixelInside(p, OuterBox(c)) /\ PixelOutside(p, InnerBox(c)))
              => /\ calls[c].ring.px[p].a > 0
                 /\ calls[c].ring.px[p].c = calls[c].opts.color
        /\ (PixelOutside(p, OuterBox(c)) \/ PixelInside(p, InnerBox(c)))
              => calls[c].ring.px[p].a = 0

\* the frame lies on the canvas
FrameOnCanvas(c) ==
    /\ OuterBox(c)[1] >= 0 /\ OuterBox(c)[1] + OuterBox(c)[3] <= 2 * calls[c].canvasWidth
    /\ OuterBox(c)[2] >= 0 /\ OuterBox(c)[2] + OuterBox(c)[4] <= 2 * calls[c].canvasHeight

\* C8 as stated: for a fully opaque W x H image no step throws, and the solid
\* ring is the frame between the (W+2*gapPx) x (H+2*gapPx) rectangle and the
\* (W+2*gapPx+2*strokePx) x (H+2*gapPx+2*strokePx) rectangle (pixels that an
\* edge of the frame crosses are left free).
C8_OpaqueImageGivesFrame ==
    \A c \in Calls :
        (calls[c].pc # "none" /\ FullyOpaque(calls[c].img)) =>
            /\ calls[c].error # "throw"
            /\ c \in MaskDone => (FrameOnCanvas(c) /\ RingCoversFrame(c))

\* the image as the final composition draws it on an empty canvas
ImageLayer(c) ==
    DrawImage(BlankCanvas(calls[c].canvasWidth, calls[c].canvasHeight), "source-over",
              calls[c].img, Whole(calls[c].img),
              <<calls[c].img.w, calls[c].img.h, 2 * calls[c].img.w, 2 * calls[c].img.h>>,
              smoothing)

\* C9 as stated, read generously: every pixel of the output either shows the
\* ring colour, where the stippled ring is present, or equals the original
\* image drawn at the canvas centre.
C9_RingColourOrImage ==
    \A c \in Resolved : \A p \in PixelsOf(calls[c].finalCanvas) :
        LET out == calls[c].finalCanvas.px[p]
            border == calls[c].borderCanvas.px[p]
        IN  IF border.a = 2 THEN out = [a |-> 2, c |-> calls[c].opts.color]
            ELSE IF border.a = 0 THEN out = ImageLayer(c).px[p]
            ELSE out = ImageLayer(c).px[p] \/ out.c = calls[c].opts.color

\* C9 amended: a pixel where the stippled ring is fully opaque shows the ring
\* colour; a pixel where it is fully transparent equals the original image
\* drawn at the canvas centre; a pixel where it is partially transparent shows
\* the ring colour blended over the image's pixel (the ring colour itself
\* where the image is transparent).
C9_RingOverImage ==
    \A c \in Resolved : \A p \in PixelsOf(calls[c].finalCanvas) :
        LET out == calls[c].finalCanvas.px[p]
            border == calls[c].borderCanvas.px[p]
            image == ImageLayer(c).px[p]
        IN  /\ border.a = 2 => out = [a |-> 2, c |-> calls[c].opts.color]
            /\ border.a = 0 => out = image
            /\ border.a = 1 =>
                  /\ out.a = Max(1, image.a)
                  /\ out.c = IF image.a = 0 THEN calls[c].opts.color ELSE "mix"

C9_Witness ==
    \E c \in Resolved :
        /\ \E p \in PixelsOf(calls[c].finalCanvas) :
              calls[c].borderCanvas.px[p].a = 1 /\ ImageLayer(c).px[p].a > 0
        /\ \E p \in PixelsOf(calls[c].finalCanvas) :
              calls[c].borderCanvas.px[p].a = 0 /\ ImageLayer(c).px[p].a > 0

\* C10: the working canvas and the final canvas are both exactly 2W x 2H, and
\* createBorderMask and the final composition place the image at the same
\* offset (2W-W)/2, (2H-H)/2, so that outside the stippled ring the output
\* is the working canvas's mask pixel for pixel.
C10_SameCanvasSameOffset ==
    \A c \in MaskDone :
        /\ calls[c].maskCanvas.w = 2 * calls[c].img.w
        /\ calls[c].maskCanvas.h = 2 * calls[c].img.h
        /\ calls[c].ring.w = 2 * calls[c].img.w
        /\ calls[c].ring.h = 2 * calls[c].img.h
        \* in half pixels
        /\ calls[c].maskImageX = 2 * calls[c].img.w - calls[c].img.w
        /\ calls[c].maskImageY = 2 * calls[c].img.h - calls[c].img.h
        /\ calls[c].imageX = calls[c].maskImageX
        /\ calls[c].imageY = calls[c].maskImageY
        /\ c \in Resolved =>
              /\ calls[c].finalCanvas.w = 2 * calls[c].img.w
              /\ calls[c].finalCanvas.h = 2 * calls[c].img.h
              /\ \A p \in PixelsOf(calls[c].finalCanvas) :
                    calls[c].borderCanvas.px[p].a = 0 =>
                        calls[c].finalCanvas.px[p] = calls[c].maskCanvas.px[p]

C10_Witness ==
    \E c \in Resolved :
        /\ Opaque(calls[c].maskCanvas) # {}
        /\ Opaque(calls[c].borderCanvas) # {}
        /\ calls[c].img.w # calls[c].img.h
        /\ calls[c].finalCanvas.w = 2 * calls[c].img.w

\* the bw x bh box about the centre of canvas cv, in half pixels
CentredBox(cv, bw, bh) == <<cv.w - bw, cv.h - bh, 2 * bw, 2 * bh>>

\* canvas cv is transparent on every pixel wholly outside box r
EmptyOutside(cv, r) == \A p \in PixelsOf(cv) : PixelOutside(p, r) => cv.px[p].a = 0

\* C11: the inner silhouette is the base mask's W x H box resampled into the
\* (W+2*gapPx) x (H+2*gapPx) box about the same centre, and the outer
\* silhouette is the inner silhouette's box (not the base mask) resampled into
\* the (W+2*gapPx+2*strokePx) x (H+2*gapPx+2*strokePx) box about that centre.
C11_ExpansionsAboutOneCentre ==
    \A c \in MaskDone :
        LET W == calls[c].img.w
            H == calls[c].img.h
            g == calls[c].opts.gapPx
            s == calls[c].opts.strokePx
            mask == calls[c].maskCanvas
            inner == calls[c].innerCanvas
            base == CentredBox(mask, W, H)
            innerBox == CentredBox(mask, W + 2 * g, H + 2 * g)
            outerBox == CentredBox(mask, W + 2 * g + 2 * s, H + 2 * g + 2 * s)
        IN  /\ inner = DrawImage(BlankCanvas(mask.w, mask.h), "source-over", mask,
                                 base, innerBox, smoothing)
            /\ calls[c].outerSilhouette =
                  DrawImage(BlankCanvas(mask.w, mask.h), "source-over", inner,
                            innerBox, outerBox, smoothing)
            /\ EmptyOutside(mask, base)
            /\ EmptyOutside(inner, innerBox)
            /\ EmptyOutside(calls[c].outerSilhouette, outerBox)

C11_Witness ==
    \E c \in MaskDone :
        /\ calls[c].opts.gapPx > 0
        /\ Opaque(calls[c].maskCanvas) # {}
        /\ Opaque(calls[c].innerCanvas) # Opaque(calls[c].maskCanvas)
        /\ Opaque(calls[c].outerSilhouette) # Opaque(calls[c].innerCanvas)
        /\ PixelsOf(calls[c].outerSilhouette) # Opaque(calls[c].outerSilhouette)

\* C12: when the solid ring has no pixel, the call still resolves, and its
\* output is the original image drawn at the canvas centre, with no border
\* pixel added.
C12_EmptyRingResolvesWithImage ==
    [][\A c \in Calls :
          (/\ calls[c].pc = "maskResolved"
           /\ Opaque(calls[c].ring) = {}
           /\ calls'[c] # calls[c]) =>
              /\ calls'[c].pc = "resolved"
              /\ calls'[c].error = "none"
              /\ Opaque(calls'[c].borderCanvas) = {}
              /\ calls'[c].finalCanvas = ImageLayer(c)]_vars

C12_Witness ==
    \E c \in Resolved :
        /\ Opaque(calls[c].ring) = {}
        /\ Opaque(calls[c].maskCanvas) # {}
        /\ calls[c].finalCanvas = ImageLayer(c)

\* the calls made with dotSizeRange = [0, 0] and lineLengthRange = [0, 0]
ZeroSized == {c \in Calls : /\ calls[c].pc # "none"
                            /\ "dotSizeRange" \in DOMAIN calls[c].options
                            /\ calls[c].options.dotSizeRange = <<0, 0>>
                            /\ calls[c].options.lineLengthRange = <<0, 0>>}

\* C13 as stated: with dotSizeRange = [0, 0] and lineLengthRange = [0, 0] no
\* step of the call throws, and when it has resolved the stippled ring has
\* zero area: the output shows no border pixel, only the image.
C13_ZeroSizesLeaveNoBorder ==
    \A c \in ZeroSized :
        /\ calls[c].error # "throw"
        /\ c \in Resolved =>
              /\ Opaque(calls[c].borderCanvas) = {}
              /\ calls[c].finalCanvas = ImageLayer(c)

\* C13 amended: with dotSizeRange = [0, 0] and lineLengthRange = [0, 0] no
\* step of the call throws; when the sampling grid finds a point of the ring,
\* the stippled ring has zero area and the output is the image alone; when it
\* finds none, the ring is returned unchanged and drawn, solid, over the image.
C13_ZeroSizesEraseSampledRing ==
    \A c \in ZeroSized :
        /\ calls[c].error # "throw"
        /\ c \in Resolved =>
              IF ContourRegions(calls[c].ring) # {}
              THEN /\ Opaque(calls[c].borderCanvas) = {}
                   /\ calls[c].finalCanvas = ImageLayer(c)
              ELSE /\ calls[c].borderCanvas = calls[c].ring
                   /\ \A p \in Opaque(calls[c].ring) :
                         calls[c].finalCanvas.px[p].a > 0

C13_Witness ==
    \E c \in ZeroSized :
        /\ c \in Resolved
        /\ ContourRegions(calls[c].ring) # {}
        /\ Opaque(calls[c].borderCanvas) = {}
        /\ Opaque(calls[c].maskCanvas) # {}

NonPositiveGeometry ==
    {c \in Calls :
        /\ calls[c].pc # "none"
        /\ LET g == MergeOptions(calls[c].options).gapPx
               s == MergeOptions(calls[c].options).strokePx
           IN  \/ calls[c].img.w + 2 * g <= 0
               \/ calls[c].img.h + 2 * g <= 0
               \/ calls[c].img.w + 2 * g + 2 * s <= 0
               \/ calls[c].img.h + 2 * g + 2 * s <= 0}

\* C15 as stated: a call whose computed silhouette dimensions are not
\* positive does not resolve with an image (it fails with a geometry error).
C15_NonPositiveGeometryFails ==
    \A c \in NonPositiveGeometry : calls[c].pc # "resolved"

\* range <<min, max>> has min > max
Inverted(range) == range[1] > range[2]

\* C16 as stated: a call whose lineLengthRange or dotSizeRange has min > max
\* is rejected as a configuration error: it does not resolve with an image.
C16_InvertedRangeRejected ==
    \A c \in Calls :
        (/\ calls[c].pc # "none"
         /\ \/ Inverted(MergeOptions(calls[c].options).lineLengthRange)
            \/ Inverted(MergeOptions(calls[c].options).dotSizeRange))
        => calls[c].pc # "resolved"

\* the image of call c has zero width or height
ZeroSize(c) == calls[c].img.w = 0 \/ calls[c].img.h = 0

\* C17: a call whose image fails to load, or loads with zero width or height,
\* rejects and never resolves; once a call has failed its only further step
\* is the rejection, which runs no stage again, and a rejected call takes no
\* step at all.
C17_FailureRejectsForGood ==
    [][\A c \in Calls :
          calls'[c] # calls[c] =>
              /\ calls[c].pc # "rejected"
              /\ calls[c].error # "none" =>
                    calls'[c] = [calls[c] EXCEPT !.pc = "rejected"]
              /\ ZeroSize(c) =>
                    /\ calls'[c].pc \in {"maskLoading", "maskRejected", "rejected"}
                    /\ calls[c].pc = "maskLoading" => calls'[c].error # "none"
              /\ calls'[c].pc = "resolved" => calls'[c].error = "none"]_vars

C17_Witness ==
    \E c \in Calls :
        /\ ZeroSize(c)
        /\ calls[c].pc = "rejected"
        /\ calls[c].error = "throw"
        /\ calls[c].finalCanvas = NoCanvas

\* the silhouettes and the ring a call's createBorderMask has produced
SilhouettesOf(m) == <<m.innerCanvas, m.outerSilhouette, m.ring>>

Overdue == {r \in Runs : runs[r].state = "pending" /\ runs[r].age >= Timeout}

\* C19: whatever the props did meanwhile, a call of applyContourBorder that
\* has neither resolved nor rejected 30 seconds after it was started has had
\* its timeout handler run, which put the component in the failed state
\* (error set, isLoading false, isProcessing false).
C19_OverdueCallHasFailed ==
    \A r \in Overdue : runs[r].timedOut

\* C20: once the timeout of a run has fired, no step shows the result of that
\* run or hands it to onBorderComplete.
C20_LateResultAbandoned ==
    [][\A r \in Runs :
          runs[r].timedOut =>
              /\ component'.borderedImageUrl = Url(r) => component.borderedImageUrl = Url(r)
              /\ editor'.borderedImageUrl = Url(r) => editor.borderedImageUrl = Url(r)]_vars

\* the runs whose generation fails in this step: by rejection or by timeout
FailsNow(r) ==
    \/ runs[r].state = "pending" /\ runs'[r].state = "rejected"
    \/ ~runs[r].timedOut /\ runs'[r].timedOut

\* C21: a step in which a generation fails leaves the image on display as it
\* was, the source image; and borderedImageUrl is only ever set to the result
\* of a run whose promise has resolved.
C21_FailureKeepsImage ==
    [][/\ \A r \in Runs : FailsNow(r) =>
              /\ Shown' = Shown
              /\ Shown' = SourceImage(element'.src)
       /\ component'.borderedImageUrl # component.borderedImageUrl =>
              \E r \in Runs : /\ runs[r].state = "resolved"
                              /\ component'.borderedImageUrl = Url(r)]_vars

ForLatestValues(ed) ==
    /\ ed.borderedImageUrl # NoPicture
    /\ ed.borderedImageUrl.gapPx = ed.gapPx
    /\ ed.borderedImageUrl.strokePx = ed.strokePx

\* C23: once CanvasEditor holds the result for the slider values as they
\* are, no step that leaves the sliders alone replaces it by a result for
\* other values.
C23_LatestResultStays ==
    [][(/\ ForLatestValues(editor)
        /\ editor'.gapPx = editor.gapPx
        /\ editor'.strokePx = editor.strokePx) => ForLatestValues(editor')]_vars

\* the number of rings on the saved image and its size
OneRing(u) == u.rings = 1 /\ u.size = 2 * Cutout.size

\* C27: every run of the border generation is given the cutout without a
\* border, and the borderedUrl saved on the image, if any, has one ring and
\* twice the cutout's size.
C27_BorderOnCutoutOnly ==
    /\ \A i \in DOMAIN previews.runs : previews.runs[i].src.rings = 0
    /\ imageFile.borderedUrl # NoPicture => OneRing(imageFile.borderedUrl)

\* C24: when the sampling grid finds no point of the ring canvas with alpha
\* above 0, applyHandDrawnEffect throws nothing and leaves the canvas as it
\* was: the call resolves with the solid ring as its border canvas.
C24_NoCandidateRingUnchanged ==
    [][\A c \in Calls :
          (/\ calls[c].pc = "maskResolved"
           /\ ContourRegions(calls[c].borderCanvas) = {}
           /\ calls'[c] # calls[c]) =>
              /\ calls'[c].pc = "resolved"
              /\ calls'[c].error = "none"
              /\ calls'[c].borderCanvas = calls[c].borderCanvas
              /\ calls'[c].borderCanvas = calls[c].ring]_vars

\* a ring with opaque pixels, none of them on the sampling grid
C24_Witness ==
    \E c \in Resolved :
        /\ ContourRegions(calls[c].ring) = {}
        /\ Opaque(calls[c].ring) # {}
        /\ calls[c].borderCanvas = calls[c].ring

\* the runs whose promise has settled
Settled == {r \in Runs : runs[r].state \in {"resolved", "rejected", "delivered"}}

\* C25: once the promise of a run has resolved or rejected, the run's 30 s
\* timer is not set any more, and its timeout handler does not run
\* afterwards: a run that had not timed out when it settled never does.
C25_SettledRunNeverTimesOut ==
    [][\A r \in Runs :
          /\ runs'[r].state \in {"resolved", "rejected", "delivered"} => runs'[r].timeout = -1
          /\ r \in Settled => runs'[r].timedOut = runs[r].timedOut]_vars

\* a run that resolved in time and whose result is shown, 30 s and more
\* after another run was started
C25_Witness ==
    \E r \in Settled, q \in Runs :
        /\ runs[r].state = "delivered"
        /\ ~runs[r].timedOut
        /\ component.borderedImageUrl = Url(r)
        /\ component.error = Null
        /\ q # r /\ runs[q].state = "pending" /\ runs[q].age >= Timeout

\* the runs that still have a timer to fire or a promise to settle
InFlight == {r \in Runs : runs[r].state \in {"scheduled", "pending", "resolved"}}

\* C26: when the component has come to rest with the border on (nothing in
\* flight, no error, not loading), the src it has processed is the src it is
\* given, also when src changed while a generation was in flight.
C26_NewSrcProcessed ==
    (/\ element.mounted /\ element.showBorder
     /\ InFlight = {}
     /\ component.error = Null /\ ~component.isLoading) =>
        refs.processedRef = element.src

\* C28: every completed stroke appends the canvas to the undo history after the
\* current index, dropping the redo tail: the entries up to the index stay, the
\* new one follows them and becomes the current one.
C28_StrokeAppends ==
    [][(painter.isDrawing /\ ~painter'.isDrawing) =>
         /\ painter'.historyRef =
                Append(SubSeq(painter.historyRef, 1, painter.historyIndexRef + 1),
                       toDataURL(painter.canvas))
         /\ painter'.historyIndexRef = painter.historyIndexRef + 1]_vars

\* C29: the upload page never holds more than maxImages images, whatever the
\* selections and drops, a selection made during the image loads of another included.
C29_AtMostMaxImages == uploader.images <= maxImages

\* C30: every page of the journal holds at most MAX_IMAGES_PER_PAGE images, and
\* addImageToPage on a full current page (named or by default) gives the journal
\* with one more page, holding that image alone, which is the current page.
C30_PagesNeverOverfull ==
    /\ \A i \in 1..Len(journal.pages) : Len(journal.pages[i].images) <= MAX_IMAGES_PER_PAGE
    /\ Len(journal.pages[journal.currentPageIndex + 1].images) >= MAX_IMAGES_PER_PAGE =>
         \A image \in JournalImages, pageIndex \in {Undefined, journal.currentPageIndex} :
             addImageToPage(journal, image, pageIndex) =
                 [pages |-> Append(journal.pages, [images |-> <<image>>]),
                  currentPageIndex |-> Len(journal.pages)]

\* a full page followed by the page addImageToPage made for the overflowing image
C30_Witness ==
    /\ Len(journal.pages) >= 2
    /\ journal.currentPageIndex = Len(journal.pages) - 1
    /\ Len(journal.pages[Len(journal.pages) - 1].images) = MAX_IMAGES_PER_PAGE
    /\ Len(journal.pages[Len(journal.pages)].images) = 1

====
